---- MODULE Spec2Model ----
(***************************************************************************)
(* State-machine model of the airGM global model (python port):            *)
(*   species.py      Species.set_density, process_reduce_lists_of_...      *)
(*   globalmodel.py  GlobalModel: incidence builder, balance evaluation,   *)
(*                   explicit update, main loop, checkpoint restore,       *)
(*                   save-interval table                                   *)
(*   main.py         the start-up sequence                                 *)
(*                                                                         *)
(* Number representation.  The program computes in floating point; the     *)
(* model computes exactly on integer grids:                                *)
(*   - a density is an integer number of density units, MINIMUM_DENSITY    *)
(*     units being the program's 1.0e-3;                                   *)
(*   - a time is an integer number of time units of 5 ps, so the reference *)
(*     step 50e-12 s is REFERENCE_DT = 10 units and 1e-9 s is 200 units;   *)
(*   - a rate constant k stands for k / RATE_DEN per time unit; a product   *)
(*     that leaves the grid is rounded toward zero.                        *)
(* The floating point value nan is the value NaN: arithmetic propagates   *)
(* it and every comparison with it but != is false.  inf is not           *)
(* represented.                                                           *)
(***************************************************************************)
EXTENDS Integers, Sequences, FiniteSets, TLC

(***************************************************************************)
(* Sizes.  The program has 53 species and 624 reactions; the model keeps   *)
(* the layout (index 0 = M, simulated species 1..LAST_SIMULATED, the       *)
(* carrier H2O last) at a size TLC can enumerate.                          *)
(***************************************************************************)
NO_SPECIES == 3
NO_REACTIONS == 2
MAX_SLOTS == 4
MINIMUM_DENSITY == 10

\* range(1, 51) with NO_SPECIES = 53: every species but the trailing
\* background gases; the model has one background gas, the carrier.
LAST_SIMULATED == NO_SPECIES - 1
\* species[53], H2O
CARRIER == NO_SPECIES
SPECIES_CONTAINING_H == {1}

SpeciesIndex == 0..NO_SPECIES
ReactionNo == 1..NO_REACTIONS
ListIndex == 0..NO_REACTIONS

VARIABLES
    reactions,      \* j -> [reactants, products, k0, kT]   (Reaction objects)
    rate,           \* j -> current rate constant           (Reaction.reaction_rate)
    lists,          \* i -> the four incidence arrays of species i
    density,        \* i -> Species.density
    loss,           \* i -> Species.loss
    source,         \* i -> Species.source
    simulation_time,
    step_count,
    dt,
    plasma_time,
    total_time,
    last_saved_simulation_time,
    peak_electron_temperature_kelvin,
    electron_temperature_kelvin,
    pc,             \* position of the program in main() / process_main_loop
    output_csv,     \* the file output.csv: [exists, lines]
    emitted,        \* history: simulation_time of each row written by this run
    log,            \* history of the run: [written, warned, before, iterations, crash]
    probe           \* history: arguments and result of the last direct call

vars == <<reactions, rate, lists, density, loss, source, simulation_time,
          step_count, dt, plasma_time, total_time, last_saved_simulation_time,
          peak_electron_temperature_kelvin, electron_temperature_kelvin,
          pc, output_csv, emitted, log, probe>>

(***************************************************************************)
(* Species                                                                 *)
(***************************************************************************)

\* float("nan"), as a flag value or a token of output.csv may hold it
NaN == 0 - 2147483647

\* the float operations +, -, *, <, >, != on values that may be nan
fadd(a, b) == IF a = NaN \/ b = NaN THEN NaN ELSE a + b
fsub(a, b) == IF a = NaN \/ b = NaN THEN NaN ELSE a - b
fmul(a, b) == IF a = NaN \/ b = NaN THEN NaN ELSE a * b
flt(a, b) == a # NaN /\ b # NaN /\ a < b
fgt(a, b) == a # NaN /\ b # NaN /\ a > b
fne(a, b) == a = NaN \/ b = NaN \/ a # b

\* Species.__init__: four arrays of NO_REACTIONS + 1 zeros, element 0 the count.
ZeroList == [h \in ListIndex |-> 0]

EmptySpeciesLists ==
    [sources |-> ZeroList, sources_multiplier |-> ZeroList,
     losses |-> ZeroList, losses_multiplier |-> ZeroList]

\* Mutant of set_density: the floor test admits the minimum's predecessor.
set_density_off_by_one(density_value) ==
    IF flt(density_value, MINIMUM_DENSITY - 1) THEN 0 ELSE density_value

\* Species.set_density
set_density(density_value) ==
    IF flt(density_value, MINIMUM_DENSITY) THEN 0 ELSE density_value

(***************************************************************************)
(* Reactions.  reaction.py is not part of the sources: a reaction is       *)
(* modelled from the specification as up to MAX_SLOTS reactant and product *)
(* species indices and a rate law.                                         *)
(***************************************************************************)
EmptyReaction == [reactants |-> <<>>, products |-> <<>>, k0 |-> 0, kT |-> 0]

\* Reaction.return_number_of_reactants / return_number_of_products
return_number_of_reactants(rx, j) == Len(rx[j].reactants)
return_number_of_products(rx, j) == Len(rx[j].products)

\* the counting loops of set_balance_equations
CountSlots(slots, i) == Cardinality({k \in 1..Len(slots) : slots[k] = i})

(***************************************************************************)
(* Incidence builder                                                       *)
(***************************************************************************)

\* increment_number_of_reaction_no_losses + set_reaction_no_losses_item +
\* set_reaction_no_losses_multiplier_item
AppendLoss(sp, j, repeat_loss) ==
    LET item_index == sp.losses[0] + 1 IN
    [sp EXCEPT !.losses = [@ EXCEPT ![0] = item_index, ![item_index] = j],
               !.losses_multiplier = [@ EXCEPT ![item_index] = repeat_loss]]

AppendSource(sp, j, repeat_source) ==
    LET item_index == sp.sources[0] + 1 IN
    [sp EXCEPT !.sources = [@ EXCEPT ![0] = item_index, ![item_index] = j],
               !.sources_multiplier = [@ EXCEPT ![item_index] = repeat_source]]

\* Mutant of ScanReactions: the two sides of a reaction are taken for each other.
RECURSIVE ScanReactionsSwapped(_, _, _, _)
ScanReactionsSwapped(sp, rx, i, j) ==
    IF j > NO_REACTIONS THEN sp
    ELSE LET repeat_loss == CountSlots(rx[j].products, i)
             sp1 == IF repeat_loss > 0 THEN AppendLoss(sp, j, repeat_loss) ELSE sp
             repeat_source == CountSlots(rx[j].reactants, i)
             sp2 == IF repeat_source > 0 THEN AppendSource(sp1, j, repeat_source)
                    ELSE sp1
         IN ScanReactionsSwapped(sp2, rx, i, j + 1)

\* set_balance_equations, the loop over j for one species i
RECURSIVE ScanReactions(_, _, _, _)
ScanReactions(sp, rx, i, j) ==
    IF j > NO_REACTIONS THEN sp
    ELSE LET repeat_loss == CountSlots(rx[j].reactants, i)
             sp1 == IF repeat_loss > 0 THEN AppendLoss(sp, j, repeat_loss) ELSE sp
             repeat_source == CountSlots(rx[j].products, i)
             sp2 == IF repeat_source > 0 THEN AppendSource(sp1, j, repeat_source)
                    ELSE sp1
         IN ScanReactions(sp2, rx, i, j + 1)

\* Mutant of ResolvePair: the larger side keeps its whole multiplier.
ResolvePairNoSubtract(sp, is_idx, il_idx) ==
    IF sp.sources[is_idx] # sp.losses[il_idx] THEN sp
    ELSE LET source_multiplier == sp.sources_multiplier[is_idx]
             loss_multiplier == sp.losses_multiplier[il_idx]
         IN  IF source_multiplier = loss_multiplier
             THEN [sp EXCEPT !.sources_multiplier[is_idx] = 0,
                             !.losses_multiplier[il_idx] = 0]
             ELSE IF source_multiplier > loss_multiplier
             THEN [sp EXCEPT !.losses_multiplier[il_idx] = 0]
             ELSE [sp EXCEPT !.sources_multiplier[is_idx] = 0]

\* Mutant of ResolvePair: unequal multipliers cancel one unit per pass.
ResolvePairByOne(sp, is_idx, il_idx) ==
    IF sp.sources[is_idx] # sp.losses[il_idx] THEN sp
    ELSE LET source_multiplier == sp.sources_multiplier[is_idx]
             loss_multiplier == sp.losses_multiplier[il_idx]
         IN  IF source_multiplier = loss_multiplier
             THEN [sp EXCEPT !.sources_multiplier[is_idx] = 0,
                             !.losses_multiplier[il_idx] = 0]
             ELSE IF source_multiplier > loss_multiplier
             THEN [sp EXCEPT !.sources_multiplier[is_idx] = source_multiplier - 1,
                             !.losses_multiplier[il_idx] = loss_multiplier - 1]
             ELSE [sp EXCEPT !.sources_multiplier[is_idx] = source_multiplier - 1,
                             !.losses_multiplier[il_idx] = loss_multiplier - 1]

\* Mutant of ResolvePair: equal multipliers are left as they are.
ResolvePairSkipsEqual(sp, is_idx, il_idx) ==
    IF sp.sources[is_idx] # sp.losses[il_idx] THEN sp
    ELSE LET source_multiplier == sp.sources_multiplier[is_idx]
             loss_multiplier == sp.losses_multiplier[il_idx]
         IN  IF source_multiplier = loss_multiplier
             THEN sp
             ELSE IF source_multiplier > loss_multiplier
             THEN [sp EXCEPT !.sources_multiplier[is_idx] =
                                 source_multiplier - loss_multiplier,
                             !.losses_multiplier[il_idx] = 0]
             ELSE [sp EXCEPT !.sources_multiplier[is_idx] = 0,
                             !.losses_multiplier[il_idx] =
                                 loss_multiplier - source_multiplier]

\* process_reduce_lists_of_reaction_no, the body of the two nested loops
ResolvePair(sp, is_idx, il_idx) ==
    IF sp.sources[is_idx] # sp.losses[il_idx] THEN sp
    ELSE LET source_multiplier == sp.sources_multiplier[is_idx]
             loss_multiplier == sp.losses_multiplier[il_idx]
         IN  IF source_multiplier = loss_multiplier
             THEN [sp EXCEPT !.sources_multiplier[is_idx] = 0,
                             !.losses_multiplier[il_idx] = 0]
             ELSE IF source_multiplier > loss_multiplier
             THEN [sp EXCEPT !.sources_multiplier[is_idx] =
                                 source_multiplier - loss_multiplier,
                             !.losses_multiplier[il_idx] = 0]
             ELSE [sp EXCEPT !.sources_multiplier[is_idx] = 0,
                             !.losses_multiplier[il_idx] =
                                 loss_multiplier - source_multiplier]

\* the nested loops: is_idx over 1..no_reactions_sources, il_idx over
\* 1..no_reactions_losses, both counts read before the loops
RECURSIVE ResolveOverlaps(_, _, _, _, _)
ResolveOverlaps(sp, is_idx, il_idx, no_reactions_sources, no_reactions_losses) ==
    IF is_idx > no_reactions_sources THEN sp
    ELSE IF il_idx > no_reactions_losses
         THEN ResolveOverlaps(sp, is_idx + 1, 1,
                              no_reactions_sources, no_reactions_losses)
         ELSE ResolveOverlaps(ResolvePair(sp, is_idx, il_idx), is_idx, il_idx + 1,
                              no_reactions_sources, no_reactions_losses)

\* Mutant of Tidy: a kept entry stays at the position it had.
RECURSIVE TidyInPlace(_, _, _, _, _)
TidyInPlace(list_no, list_mul, idx, n, tidy) ==
    IF idx > n
    THEN [no |-> [tidy.no EXCEPT ![0] = tidy.index], mul |-> tidy.mul]
    ELSE IF list_mul[idx] > 0
         THEN TidyInPlace(list_no, list_mul, idx + 1, n,
                          [no |-> [tidy.no EXCEPT ![idx] = list_no[idx]],
                           mul |-> [tidy.mul EXCEPT ![idx] = list_mul[idx]],
                           index |-> tidy.index + 1])
         ELSE TidyInPlace(list_no, list_mul, idx + 1, n, tidy)

\* "Tidy up": copy the entries with a positive multiplier to 1..index of fresh
\* zeroed arrays; tidy = [no, mul, index]
RECURSIVE Tidy(_, _, _, _, _)
Tidy(list_no, list_mul, idx, n, tidy) ==
    IF idx > n
    THEN [no |-> [tidy.no EXCEPT ![0] = tidy.index], mul |-> tidy.mul]
    ELSE IF list_mul[idx] > 0
         THEN Tidy(list_no, list_mul, idx + 1, n,
                   [no |-> [tidy.no EXCEPT ![tidy.index + 1] = list_no[idx]],
                    mul |-> [tidy.mul EXCEPT ![tidy.index + 1] = list_mul[idx]],
                    index |-> tidy.index + 1])
         ELSE Tidy(list_no, list_mul, idx + 1, n, tidy)

FreshTidy == [no |-> ZeroList, mul |-> ZeroList, index |-> 0]

\* Species.process_reduce_lists_of_reaction_no
process_reduce_lists_of_reaction_no(sp) ==
    LET no_reactions_sources == sp.sources[0]
        no_reactions_losses == sp.losses[0]
        resolved == ResolveOverlaps(sp, 1, 1, no_reactions_sources, no_reactions_losses)
        src == Tidy(resolved.sources, resolved.sources_multiplier, 1,
                    no_reactions_sources, FreshTidy)
        los == Tidy(resolved.losses, resolved.losses_multiplier, 1,
                    no_reactions_losses, FreshTidy)
    IN  [sources |-> src.no, sources_multiplier |-> src.mul,
         losses |-> los.no, losses_multiplier |-> los.mul]

\* GlobalModel.set_balance_equations: species 1..NO_SPECIES, index 0 untouched
BalanceEquations(ls, rx) ==
    [i \in SpeciesIndex |->
        IF i >= 1
        THEN process_reduce_lists_of_reaction_no(ScanReactions(ls[i], rx, i, 1))
        ELSE ls[i]]

(***************************************************************************)
(* Model constants of GlobalModel.__init__ (time units of 5 ps, kelvin)    *)
(***************************************************************************)
REFERENCE_DT == 10
DEFAULT_PLASMA_TIME == 200
DEFAULT_TOTAL_TIME == 200000
GAS_TEMPERATURE == 298
\* last_saved_simulation_time = -1.0 s lies below the time grid; it is
\* represented by the grid's lowest point, which no modelled time reaches.
NEVER_SAVED == -2000000000

NoProbe == [call |-> "none", species |-> 0, arg |-> 0, count |-> 0,
            time |-> [m |-> 0, e |-> 0], step |-> [m |-> 0, e |-> 0],
            result |-> [raised |-> FALSE, value |-> 0]]
NoFile == [exists |-> FALSE, lines |-> <<>>]
\* written, warned: species the last time step wrote / warned about; before:
\* the densities at the start of the last time step; iterations: iterations of
\* process_main_loop so far; crash: the exception that ended the program
NoLog == [written |-> {}, warned |-> {}, before |-> [i \in SpeciesIndex |-> 0],
          iterations |-> 0, crash |-> "none", cancel |-> FALSE]

\* GlobalModel.__init__ apart from the reaction table, and the history variables
Constructed ==
    /\ rate = [j \in ReactionNo |-> 0]
    /\ lists = [i \in SpeciesIndex |-> EmptySpeciesLists]
    /\ density = [i \in SpeciesIndex |-> 0]
    /\ loss = [i \in SpeciesIndex |-> 0]
    /\ source = [i \in SpeciesIndex |-> 0]
    /\ simulation_time = 0
    /\ step_count = 0
    /\ dt = REFERENCE_DT
    /\ plasma_time = DEFAULT_PLASMA_TIME
    /\ total_time = DEFAULT_TOTAL_TIME
    /\ last_saved_simulation_time = NEVER_SAVED
    /\ peak_electron_temperature_kelvin = GAS_TEMPERATURE
    /\ electron_temperature_kelvin = GAS_TEMPERATURE
    /\ emitted = <<>>
    /\ log = NoLog

(***************************************************************************)
(* Incidence builder on its own: any reaction table of the catalogue       *)
(***************************************************************************)
Copies(n, i) == [k \in 1..n |-> i]

\* Reaction shapes: species 1 fills l reactant and s product slots; when a
\* side has a slot left, species 2 (reactants) or species 2 / M (products)
\* takes one more.
Shape(l, s) ==
    [reactants |-> Copies(l, 1) \o (IF l < MAX_SLOTS THEN <<2>> ELSE <<>>),
     products |-> (IF s < MAX_SLOTS THEN <<IF (l + s) % 2 = 0 THEN 2 ELSE 0>>
                   ELSE <<>>) \o Copies(s, 1),
     k0 |-> 0, kT |-> 0]

Catalogue == {Shape(l, s) : l \in 0..MAX_SLOTS, s \in 0..MAX_SLOTS}

InitBuild ==
    /\ Constructed
    /\ reactions \in [ReactionNo -> Catalogue]
    /\ pc = "topology"
    /\ output_csv = NoFile
    /\ probe = NoProbe

\* main.py:41, GlobalModel.set_balance_equations
SetBalanceEquations ==
    /\ pc = "topology"
    /\ lists' = BalanceEquations(lists, reactions)
    /\ pc' = "balanced"
    /\ UNCHANGED <<reactions, rate, density, loss, source, simulation_time,
                   step_count, dt, plasma_time, total_time,
                   last_saved_simulation_time, peak_electron_temperature_kelvin,
                   electron_temperature_kelvin, output_csv, emitted, log, probe>>

\* a further direct call of Species.process_reduce_lists_of_reaction_no
ReduceAgain ==
    /\ pc = "balanced"
    /\ \E i \in 1..NO_SPECIES :
          /\ lists' = [lists EXCEPT ![i] = process_reduce_lists_of_reaction_no(@)]
          /\ probe' = [NoProbe EXCEPT !.call = "process_reduce_lists_of_reaction_no",
                                       !.species = i, !.count = 1]
    /\ UNCHANGED <<reactions, rate, density, loss, source, simulation_time,
                   step_count, dt, plasma_time, total_time,
                   last_saved_simulation_time, peak_electron_temperature_kelvin,
                   electron_temperature_kelvin, pc, output_csv, emitted, log>>

NextBuild == SetBalanceEquations \/ ReduceAgain

SpecBuild == InitBuild /\ [][NextBuild]_vars

\* multiplier of reaction j in a compacted list (an absent entry counts 0)
RECURSIVE SumMultiplier(_, _, _, _)
SumMultiplier(list_no, list_mul, j, h) ==
    IF h = 0 THEN 0
    ELSE (IF list_no[h] = j THEN list_mul[h] ELSE 0)
         + SumMultiplier(list_no, list_mul, j, h - 1)

SourceMultiplier(i, j) ==
    SumMultiplier(lists[i].sources, lists[i].sources_multiplier, j, lists[i].sources[0])

LossMultiplier(i, j) ==
    SumMultiplier(lists[i].losses, lists[i].losses_multiplier, j, lists[i].losses[0])

\* C1 Multiplier conservation: once set_balance_equations has run, for every
\* species i in 1..NO_SPECIES and every reaction j the final source multiplier
\* minus the final loss multiplier equals the number of product slots of j
\* holding i minus the number of reactant slots of j holding i.
C1_MultiplierConservation ==
    pc = "balanced" =>
        \A i \in 1..NO_SPECIES, j \in ReactionNo :
            SourceMultiplier(i, j) - LossMultiplier(i, j)
                = CountSlots(reactions[j].products, i)
                  - CountSlots(reactions[j].reactants, i)

\* a built network in which a species is produced more often than consumed by
\* one reaction and consumed more often than produced by another
C1_Witness ==
    /\ pc = "balanced"
    /\ \E i \in 1..NO_SPECIES, j1, j2 \in ReactionNo :
          /\ CountSlots(reactions[j1].products, i) > CountSlots(reactions[j1].reactants, i)
          /\ CountSlots(reactions[j1].reactants, i) > 0
          /\ CountSlots(reactions[j2].reactants, i) > CountSlots(reactions[j2].products, i)
          /\ CountSlots(reactions[j2].products, i) > 0

\* C2 Dedup idempotence: applying process_reduce_lists_of_reaction_no again to
\* a species whose lists set_balance_equations has already reduced changes
\* none of the four arrays (ids, multipliers, and the counts in element 0).
C2_DedupIdempotent ==
    [][(pc = "balanced" /\ pc' = "balanced") => lists' = lists]_vars

\* the second pass has run on a species one of whose raw overlaps had
\* multipliers differing by two or more
C2_Witness ==
    /\ probe.call = "process_reduce_lists_of_reaction_no"
    /\ \E j \in ReactionNo :
          CountSlots(reactions[j].products, probe.species)
            >= CountSlots(reactions[j].reactants, probe.species) + 2
          /\ CountSlots(reactions[j].reactants, probe.species) >= 2

(***************************************************************************)
(* Species.set_density on its own                                          *)
(***************************************************************************)
MaxDensityInput == 12
MaxCalls == 2
DensityInputs == ((0 - 2)..MaxDensityInput) \cup {NaN}

InitSetDensity ==
    /\ Constructed
    /\ reactions = [j \in ReactionNo |-> EmptyReaction]
    /\ pc = "set_density"
    /\ output_csv = NoFile
    /\ probe = NoProbe

CallSetDensity ==
    /\ pc = "set_density"
    /\ probe.count < MaxCalls
    /\ \E i \in SpeciesIndex, x \in DensityInputs :
          /\ density' = [density EXCEPT ![i] = set_density(x)]
          /\ probe' = [NoProbe EXCEPT !.call = "set_density", !.species = i,
                                       !.arg = x, !.count = probe.count + 1]
    /\ UNCHANGED <<reactions, rate, lists, loss, source, simulation_time,
                   step_count, dt, plasma_time, total_time,
                   last_saved_simulation_time, peak_electron_temperature_kelvin,
                   electron_temperature_kelvin, pc, output_csv, emitted, log>>

NextSetDensity == CallSetDensity

SpecSetDensity == InitSetDensity /\ [][NextSetDensity]_vars

\* C3 Density floor: after set_density(x) the stored density is exactly 0 when
\* x is below the minimum density and is x itself when x is at or above it.
C3_DensityFloor ==
    probe.call = "set_density" =>
        /\ flt(probe.arg, MINIMUM_DENSITY) => density[probe.species] = 0
        /\ (probe.arg # NaN /\ probe.arg >= MINIMUM_DENSITY) =>
              density[probe.species] = probe.arg

\* both sides of the floor have been stored: the value just below the minimum
\* (as 0) after the minimum itself
C3_Witness ==
    /\ probe.call = "set_density"
    /\ probe.count = 2
    /\ probe.arg = MINIMUM_DENSITY - 1
    /\ \E i \in SpeciesIndex : i # probe.species /\ density[i] = MINIMUM_DENSITY

(***************************************************************************)
(* Rate law and electron temperature                                       *)
(***************************************************************************)
RATE_DEN == 100
EV_TO_KELVIN == 11605
\* the 1e5 of the stability warning on the model's density grid: above the
\* default electron density, below the default densities of H2O and M
NOISE_FLOOR == 1100

\* Reaction.set_reaction_rate(j, gas_T, electron_T) (reaction.py): a
\* non-negative function of the reaction and the two temperatures
RateLaw(rx, j, gas_temperature, electron_temperature) ==
    rx[j].k0 + rx[j].kT * ((electron_temperature - gas_temperature) \div 1000)

\* GlobalModel.set_reaction_rates
set_reaction_rates(rx, electron_temperature) ==
    [j \in ReactionNo |-> RateLaw(rx, j, GAS_TEMPERATURE, electron_temperature)]

\* 1000 * exp(-E) for E = 0, 1, ..., 12, rounded up (exp is never 0)
GaussTable == <<1000, 368, 136, 50, 19, 7, 3, 1, 1, 1, 1, 1, 1>>

GaussWeight(t, p) ==
    LET E == ((t - 5 * p) * (t - 5 * p)) \div (2 * p * p)
    IN  IF E + 1 > Len(GaussTable) THEN 1 ELSE GaussTable[E + 1]

\* Mutant of return_electron_temperature_kelvin_at_time: the pulse window
\* includes its end, 10 * plasma_time.
return_electron_temperature_kelvin_at_time_closed(t, p, peak) ==
    IF t <= 10 * p
    THEN IF p = 0
         THEN [raised |-> TRUE, value |-> 0]
         ELSE [raised |-> FALSE,
               value |-> GAS_TEMPERATURE
                         + ((peak - GAS_TEMPERATURE) * GaussWeight(t, p)) \div 1000]
    ELSE [raised |-> FALSE, value |-> GAS_TEMPERATURE]

\* GlobalModel.return_electron_temperature_kelvin_at_time; the division by
\* plasma_time raises ZeroDivisionError when plasma_time is 0
return_electron_temperature_kelvin_at_time(t, p, peak) ==
    IF t < 10 * p
    THEN IF p = 0
         THEN [raised |-> TRUE, value |-> 0]
         ELSE [raised |-> FALSE,
               value |-> GAS_TEMPERATURE
                         + ((peak - GAS_TEMPERATURE) * GaussWeight(t, p)) \div 1000]
    ELSE [raised |-> FALSE, value |-> GAS_TEMPERATURE]

(***************************************************************************)
(* Balance evaluator                                                       *)
(***************************************************************************)

\* aux_density: the product of the densities of all reactant slots of j
RECURSIVE DensityProduct(_, _, _)
DensityProduct(slots, dens, ri) ==
    IF ri > Len(slots) THEN 1
    ELSE fmul(dens[slots[ri]], DensityProduct(slots, dens, ri + 1))

\* Mutant of Accumulate: the multiplier is left out of a term.
RECURSIVE AccumulateNoMultiplier(_, _, _, _, _, _, _)
AccumulateNoMultiplier(list_no, list_mul, h, rx, rt, dens, acc) ==
    IF h > list_no[0] THEN acc
    ELSE LET j == list_no[h]
             aux_density == DensityProduct(rx[j].reactants, dens, 1)
         IN  AccumulateNoMultiplier(list_no, list_mul, h + 1, rx, rt, dens,
                                    fadd(acc, fmul(rt[j], aux_density)))

\* one of the two accumulation loops of process_balance_equations
RECURSIVE Accumulate(_, _, _, _, _, _, _)
Accumulate(list_no, list_mul, h, rx, rt, dens, acc) ==
    IF h > list_no[0] THEN acc
    ELSE LET j == list_no[h]
             aux_density == DensityProduct(rx[j].reactants, dens, 1)
         IN  Accumulate(list_no, list_mul, h + 1, rx, rt, dens,
                        fadd(acc, fmul(fmul(rt[j], aux_density), list_mul[h])))

\* Mutant of BalanceOf: no carrier bypass and no zero-density guard.
BalanceOfUnguarded(i, dens, rt, ls, rx) ==
    [loss |-> Accumulate(ls[i].losses, ls[i].losses_multiplier, 1, rx, rt, dens, 0),
     source |-> Accumulate(ls[i].sources, ls[i].sources_multiplier, 1, rx, rt, dens, 0)]

\* process_balance_equations, the body of the loop over i
BalanceOf(i, dens, rt, ls, rx) ==
    IF dens[CARRIER] = 0 /\ i \in SPECIES_CONTAINING_H
    THEN [loss |-> 0, source |-> 0]
    ELSE [loss |-> IF fgt(dens[i], 0)
                   THEN Accumulate(ls[i].losses, ls[i].losses_multiplier, 1,
                                   rx, rt, dens, 0)
                   ELSE 0,
          source |-> Accumulate(ls[i].sources, ls[i].sources_multiplier, 1,
                                rx, rt, dens, 0)]

\* Mutant of process_balance_equations: the loop runs over range(1, NO_SPECIES + 1).
process_balance_equations_all(dens, rt, ls, rx, old_loss, old_source) ==
    [i \in SpeciesIndex |->
        IF i >= 1 /\ i <= NO_SPECIES
        THEN BalanceOf(i, dens, rt, ls, rx)
        ELSE [loss |-> old_loss[i], source |-> old_source[i]]]

\* GlobalModel.process_balance_equations: range(1, 51)
process_balance_equations(dens, rt, ls, rx, old_loss, old_source) ==
    [i \in SpeciesIndex |->
        IF i >= 1 /\ i <= LAST_SIMULATED
        THEN BalanceOf(i, dens, rt, ls, rx)
        ELSE [loss |-> old_loss[i], source |-> old_source[i]]]

(***************************************************************************)
(* Explicit update                                                         *)
(***************************************************************************)
TruncDiv(a, b) ==
    IF a = NaN THEN NaN ELSE IF a >= 0 THEN a \div b ELSE 0 - ((0 - a) \div b)

\* Mutant of StepOf: the density is stored without the floor.
StepOfUnclamped(dens_i, loss_i, source_i, step) ==
    IF fgt(loss_i, 0) \/ fgt(source_i, 0)
    THEN LET sources_minus_losses == fsub(source_i, loss_i)
             aux_density == TruncDiv(fmul(sources_minus_losses, step), RATE_DEN)
         IN  [density |-> IF fne(sources_minus_losses, 0) THEN fadd(dens_i, aux_density)
                          ELSE dens_i,
              wrote |-> fne(sources_minus_losses, 0),
              warned |-> fgt(sources_minus_losses, 0) /\ fgt(aux_density, dens_i)
                         /\ fgt(dens_i, NOISE_FLOOR)]
    ELSE [density |-> dens_i, wrote |-> FALSE, warned |-> FALSE]

\* Mutant of StepOf: set_density is called also when source equals loss.
StepOfAlwaysWrites(dens_i, loss_i, source_i, step) ==
    IF fgt(loss_i, 0) \/ fgt(source_i, 0)
    THEN LET sources_minus_losses == fsub(source_i, loss_i)
             aux_density == TruncDiv(fmul(sources_minus_losses, step), RATE_DEN)
         IN  [density |-> set_density(fadd(dens_i, aux_density)),
              wrote |-> TRUE,
              warned |-> fgt(sources_minus_losses, 0) /\ fgt(aux_density, dens_i)
                         /\ fgt(dens_i, NOISE_FLOOR)]
    ELSE [density |-> dens_i, wrote |-> FALSE, warned |-> FALSE]

\* Mutant of StepOf: a step that raises the warning is not stored.
StepOfWarningSkips(dens_i, loss_i, source_i, step) ==
    IF fgt(loss_i, 0) \/ fgt(source_i, 0)
    THEN LET sources_minus_losses == fsub(source_i, loss_i)
             aux_density == TruncDiv(fmul(sources_minus_losses, step), RATE_DEN)
             warning == fgt(sources_minus_losses, 0) /\ fgt(aux_density, dens_i)
                        /\ fgt(dens_i, NOISE_FLOOR)
         IN  [density |-> IF fne(sources_minus_losses, 0) /\ ~warning
                          THEN set_density(fadd(dens_i, aux_density))
                          ELSE dens_i,
              wrote |-> fne(sources_minus_losses, 0) /\ ~warning,
              warned |-> warning]
    ELSE [density |-> dens_i, wrote |-> FALSE, warned |-> FALSE]

\* Mutant of StepOf: the loss is not subtracted.
StepOfNoLoss(dens_i, loss_i, source_i, step) ==
    IF fgt(loss_i, 0) \/ fgt(source_i, 0)
    THEN LET sources_minus_losses == source_i
             aux_density == TruncDiv(fmul(sources_minus_losses, step), RATE_DEN)
         IN  [density |-> IF fne(sources_minus_losses, 0)
                          THEN set_density(fadd(dens_i, aux_density))
                          ELSE dens_i,
              wrote |-> fne(sources_minus_losses, 0),
              warned |-> fgt(sources_minus_losses, 0) /\ fgt(aux_density, dens_i)
                         /\ fgt(dens_i, NOISE_FLOOR)]
    ELSE [density |-> dens_i, wrote |-> FALSE, warned |-> FALSE]

\* process_time_step_species_densities, the body of the loop over i
StepOf(dens_i, loss_i, source_i, step) ==
    IF fgt(loss_i, 0) \/ fgt(source_i, 0)
    THEN LET sources_minus_losses == fsub(source_i, loss_i)
             aux_density == TruncDiv(fmul(sources_minus_losses, step), RATE_DEN)
         IN  [density |-> IF fne(sources_minus_losses, 0)
                          THEN set_density(fadd(dens_i, aux_density))
                          ELSE dens_i,
              wrote |-> fne(sources_minus_losses, 0),
              warned |-> fgt(sources_minus_losses, 0) /\ fgt(aux_density, dens_i)
                         /\ fgt(dens_i, NOISE_FLOOR)]
    ELSE [density |-> dens_i, wrote |-> FALSE, warned |-> FALSE]

\* the densities after the simulated species before i have been evaluated and
\* advanced one after the other
RECURSIVE AdvancedBefore(_, _, _, _, _, _)
AdvancedBefore(i, dens, rt, ls, rx, step) ==
    IF i <= 1 THEN dens
    ELSE LET earlier == AdvancedBefore(i - 1, dens, rt, ls, rx, step)
             b == BalanceOf(i - 1, earlier, rt, ls, rx)
         IN  [earlier EXCEPT ![i - 1] = StepOf(earlier[i - 1], b.loss, b.source,
                                              step).density]

\* Mutant of process_time_step_species_densities: species i is evaluated and
\* advanced after the species before it have been advanced.
process_time_step_species_densities_in_place(dens, bal, step) ==
    [i \in SpeciesIndex |->
        IF i >= 1 /\ i <= LAST_SIMULATED
        THEN LET b == BalanceOf(i, AdvancedBefore(i, dens, rate', lists, reactions, step),
                                rate', lists, reactions)
             IN  StepOf(dens[i], b.loss, b.source, step)
        ELSE [density |-> dens[i], wrote |-> FALSE, warned |-> FALSE]]

\* GlobalModel.process_time_step_species_densities: range(1, 51)
process_time_step_species_densities(dens, bal, step) ==
    [i \in SpeciesIndex |->
        IF i >= 1 /\ i <= LAST_SIMULATED
        THEN StepOf(dens[i], bal[i].loss, bal[i].source, step)
        ELSE [density |-> dens[i], wrote |-> FALSE, warned |-> FALSE]]

(***************************************************************************)
(* Save interval.  The table spans 10^-9 s to 10^3 s, more than the time   *)
(* grid holds, so the function takes its two arguments as m * 10^e units.  *)
(***************************************************************************)
RECURSIVE Pow10(_)
Pow10(n) == IF n = 0 THEN 1 ELSE 10 * Pow10(n - 1)

Units(t) == [m |-> t, e |-> 0]

\* time <= 10^x seconds, i.e. m * 10^e <= 2 * 10^(x + 11) units
LeqSeconds(time, x) ==
    LET q == x + 11 IN
    IF time.m <= 0 THEN TRUE
    ELSE IF time.e > q THEN FALSE
    ELSE IF q - time.e > 9 THEN TRUE
    ELSE time.m <= 2 * Pow10(q - time.e)

\* the thirteen ifs of return_save_interval_step, from 1e3 down to 1e-9:
\* the result is 10^k, k = x + 9 for the last threshold 10^x that holds
RECURSIVE TableExponent(_, _, _)
TableExponent(time, x, k) ==
    IF x < 0 - 9 THEN k
    ELSE TableExponent(time, x - 1, IF LeqSeconds(time, x) THEN x + 9 ELSE k)

\* Mutant of return_save_interval_step: no minimum of 1.
return_save_interval_step_no_min(time, step) ==
    IF step.m = 0 THEN [raised |-> TRUE, value |-> 0]
    ELSE LET k == TableExponent(time, 3, 0)
             n == k + 1 - step.e
         IN  [raised |-> FALSE,
              value |-> IF step.m < 0 \/ n < 0 THEN 0 ELSE Pow10(n) \div step.m]

\* GlobalModel.return_save_interval_step: int(result / (dt / 50e-12)), at
\* least 1; the division raises ZeroDivisionError when dt is 0
return_save_interval_step(time, step) ==
    IF step.m = 0 THEN [raised |-> TRUE, value |-> 0]
    ELSE LET k == TableExponent(time, 3, 0)
             \* 10^k / ((m * 10^e) / REFERENCE_DT), REFERENCE_DT = 10^1
             n == k + 1 - step.e
             result == IF step.m < 0 \/ n < 0 THEN 0 ELSE Pow10(n) \div step.m
         IN  [raised |-> FALSE, value |-> IF result < 1 THEN 1 ELSE result]

(***************************************************************************)
(* return_save_interval_step on its own                                    *)
(***************************************************************************)
MaxTimeMantissa == 3
MaxTimeExponent == 15
MaxStepExponent == 6

ProbeTimes == {[m |-> m, e |-> e] : m \in 0..MaxTimeMantissa, e \in 0..MaxTimeExponent}
ProbeSteps == {[m |-> m, e |-> e] : m \in {0 - 1, 0, 1, 2, 3}, e \in 0..MaxStepExponent}

\* the quotient fits the model's integers
Fits(time, step) == step.m <= 0 \/ TableExponent(time, 3, 0) + 1 - step.e <= 9

InitInterval ==
    /\ Constructed
    /\ reactions = [j \in ReactionNo |-> EmptyReaction]
    /\ pc = "return_save_interval_step"
    /\ output_csv = NoFile
    /\ probe = NoProbe

CallReturnSaveIntervalStep ==
    /\ pc = "return_save_interval_step"
    /\ probe.call = "none"
    /\ \E time \in ProbeTimes, step \in ProbeSteps :
          /\ Fits(time, step)
          /\ probe' = [NoProbe EXCEPT !.call = "return_save_interval_step",
                                       !.time = time, !.step = step,
                                       !.result = return_save_interval_step(time, step)]
    /\ UNCHANGED <<reactions, rate, lists, density, loss, source, simulation_time,
                   step_count, dt, plasma_time, total_time,
                   last_saved_simulation_time, peak_electron_temperature_kelvin,
                   electron_temperature_kelvin, pc, output_csv, emitted, log>>

NextInterval == CallReturnSaveIntervalStep

SpecInterval == InitInterval /\ [][NextInterval]_vars

\* the decade of a time: the least x in -9..3 with time <= 10^x s, if any
InTable(time) == LeqSeconds(time, 3)
Decade(time) == CHOOSE x \in (0 - 9)..3 :
                    /\ LeqSeconds(time, x)
                    /\ \A y \in (0 - 9)..3 : LeqSeconds(time, y) => x <= y

\* C7 Save-interval table: every call returns an integer that is at least 1;
\* for a time within the table and a step m * 10^e > 0 it is
\* max(1, floor(10^(Decade + 9) / (dt / 50e-12))); with dt = 50e-12 it is
\* 10000 at 1e-5 s and 1 at 1e-9 s.
C7_SaveIntervalTable ==
    probe.call = "return_save_interval_step" =>
        LET r == probe.result
            n == Decade(probe.time) + 9 + 1 - probe.step.e
        IN  /\ ~r.raised
            /\ r.value >= 1
            /\ (InTable(probe.time) /\ probe.step.m > 0) =>
                  IF n < 0 \/ Pow10(IF n < 0 THEN 0 ELSE n) < probe.step.m
                  THEN r.value = 1
                  ELSE /\ r.value * probe.step.m <= Pow10(n)
                       /\ Pow10(n) < (r.value + 1) * probe.step.m
            /\ (probe.step = [m |-> 1, e |-> 1] /\ probe.time = [m |-> 2, e |-> 6])
                  => r.value = 10000
            /\ (probe.step = [m |-> 1, e |-> 1] /\ probe.time = [m |-> 2, e |-> 2])
                  => r.value = 1

\* C7 without its totality: whenever the call returns, the value is as claimed
C7_WhenItReturns ==
    (probe.call = "return_save_interval_step" /\ ~probe.result.raised)
        => C7_SaveIntervalTable

(***************************************************************************)
(* The persisted stream output.csv.  A line is its comma-separated tokens  *)
(* and whether it is longer than 50 characters; a token is a number        *)
(* (kind "num"), text float() rejects (kind "text") or empty.  A line of   *)
(* 53 columns written by the program is always longer than 50 characters.  *)
(***************************************************************************)
Num(v) == [kind |-> "num", val |-> v]
Text == [kind |-> "text", val |-> 0]

\* the power of ten to which a value of more than six digits is rounded
RECURSIVE Magnitude(_, _)
Magnitude(v, p) == IF v < 1000000 * p THEN p ELSE Magnitude(v, 10 * p)

RoundHalfEven(v, p) ==
    LET q == v \div p
        r == v % p
    IN  IF 2 * r > p \/ (2 * r = p /\ q % 2 = 1) THEN (q + 1) * p ELSE q * p

\* GlobalModel._fmt_float: "%.6g", read back by float(): six significant digits
fmt_float(v) ==
    IF v = NaN THEN NaN
    ELSE IF v >= 0 THEN RoundHalfEven(v, Magnitude(v, 1))
    ELSE 0 - RoundHalfEven(0 - v, Magnitude(0 - v, 1))

\* a time of t units is printed in seconds, 5 * t * 1e-12
fmt_time(t) == fmt_float(5 * t) \div 5

\* the header line of process_main_loop
HeaderLine == [long |-> TRUE, tokens |-> [k \in 1..(NO_SPECIES + 2) |-> Text]]

\* a sample row of process_main_loop
RowLine(dens, t, n) ==
    [long |-> TRUE,
     tokens |-> [k \in 1..(NO_SPECIES + 2) |->
                    IF k <= NO_SPECIES THEN Num(fmt_float(dens[k]))
                    ELSE IF k = NO_SPECIES + 1 THEN Num(fmt_time(t))
                    ELSE Num(n)]]

\* read_species_density_data_file, lines 285-290: the last line longer than 50
LongLines(lines) == {k \in 1..Len(lines) : lines[k].long}
LastLong(lines) == CHOOSE k \in LongLines(lines) : \A h \in LongLines(lines) : h <= k

\* lines 295-301: parse tokens until NO_SPECIES + 2 values; float() raises
\* ValueError on text
RECURSIVE ParseTokens(_, _, _)
ParseTokens(tokens, k, values) ==
    IF k > Len(tokens) THEN [raised |-> FALSE, values |-> values]
    ELSE IF tokens[k].kind = "text" THEN [raised |-> TRUE, values |-> values]
    ELSE LET vs == IF tokens[k].kind = "num" THEN Append(values, tokens[k].val)
                   ELSE values
         IN  IF Len(vs) >= NO_SPECIES + 2 THEN [raised |-> FALSE, values |-> vs]
             ELSE ParseTokens(tokens, k + 1, vs)

RECURSIVE SumValues(_, _)
SumValues(values, n) ==
    IF n = 0 THEN 0 ELSE fadd(values[n], SumValues(values, n - 1))

\* GlobalModel.read_species_density_data_file as a function of the file:
\* what it does (outcome) and, when it restores, the values it assigns.
\* int(values[54]) raises ValueError on nan, after the densities and the two
\* times have been assigned.
read_species_density_data_file(file) ==
    IF ~file.exists THEN [outcome |-> "missing", values |-> <<>>]
    ELSE IF LongLines(file.lines) = {} THEN [outcome |-> "no data line", values |-> <<>>]
    ELSE LET parsed == ParseTokens(file.lines[LastLong(file.lines)].tokens, 1, <<>>)
         IN  IF parsed.raised THEN [outcome |-> "ValueError", values |-> <<>>]
             ELSE IF Len(parsed.values) < NO_SPECIES + 2
             THEN [outcome |-> "too few values", values |-> <<>>]
             ELSE IF parsed.values[NO_SPECIES + 2] = NaN
             THEN [outcome |-> "ValueError in int", values |-> parsed.values]
             ELSE [outcome |-> "restored", values |-> parsed.values]

\* Mutant of RestoredDensity: M is the sum of the stored densities.
RestoredDensitySumOfStored(values) ==
    [i \in SpeciesIndex |->
        IF i = 0
        THEN set_density(SumValues([k \in 1..NO_SPECIES |-> set_density(values[k])],
                                   NO_SPECIES))
        ELSE set_density(values[i])]

\* lines 308-313: the densities a successful restore assigns
RestoredDensity(values) ==
    [i \in SpeciesIndex |->
        IF i = 0 THEN set_density(SumValues(values, NO_SPECIES))
        ELSE set_density(values[i])]

(***************************************************************************)
(* Command line (commandline.py): the value found for each of the five     *)
(* flags is "EMPTY" (flag absent or last argument), text, or a number.     *)
(* return_float_flag_value narrows the number to float32; the model's      *)
(* grids are coarser than float32, so a grid value is returned as it is.   *)
(***************************************************************************)
Empty == [kind |-> "EMPTY", val |-> 0]

\* Mutant of flag_value_is_number: every value counts as a number.
flag_value_is_number_always(flag_value) == TRUE

\* CommandLine.flag_value_is_number
flag_value_is_number(flag_value) == flag_value.kind = "num"

\* CommandLine.return_float_flag_value
return_float_flag_value(flag_value) ==
    IF flag_value_is_number(flag_value) THEN flag_value.val ELSE 0

(***************************************************************************)
(* The program: main() and the iterations of process_main_loop             *)
(***************************************************************************)
MaxIterations == 11
\* iterations are followed while every density is at most this many units
MaxDensity == 5000

\* set_default_species_densities: 2.40e25 (M), 1.00e3 (e), 1.20e24 (H2O) on
\* the model's density grid
DEFAULT_DENSITY_M == 2400
DEFAULT_DENSITY_E == 1000
DEFAULT_DENSITY_H2O == 1200

\* the reaction data of reaction.py: tables of NO_REACTIONS reactions
Table(defined) ==
    [j \in ReactionNo |-> IF j <= Len(defined) THEN defined[j] ELSE EmptyReaction]

Reaction(reactants, products, k0, kT) ==
    [reactants |-> reactants, products |-> products, k0 |-> k0, kT |-> kT]

\* A -> B at constant rate k
DecayNetwork(a, b, k) == Table(<<Reaction(<<a>>, <<b>>, k, 0)>>)

Networks ==
    {DecayNetwork(1, 2, 5), DecayNetwork(2, 1, 1), DecayNetwork(2, 1, 20)}
    \cup {Table(<<Reaction(<<CARRIER>>, <<1>>, 1, 0), Reaction(<<1>>, <<2>>, 1, 0)>>),
          Table(<<Reaction(<<2>>, <<1, 2>>, 0, 1), Reaction(<<1>>, <<2>>, 2, 0)>>),
          Table(<<Reaction(<<1, 1>>, <<2>>, 1, 0)>>),
          Table(<<Reaction(<<2, 1>>, <<2>>, 1, 0)>>)}

\* output.csv as the program may find it
CheckpointRows ==
    {RowLine([i \in SpeciesIndex |->
                 IF i = 1 THEN 40 ELSE IF i = 2 THEN 5 ELSE IF i = CARRIER THEN 40 ELSE 0],
             20, 2),
     RowLine([i \in SpeciesIndex |-> IF i = 1 THEN 5 ELSE IF i = 2 THEN 0 - 3 ELSE 0],
             0, 0),
     RowLine([i \in SpeciesIndex |-> IF i \in {1, 2} THEN 40 ELSE 0], 20, 2)}

\* a row whose StepNo column float() reads as nan
NanStepRow ==
    [long |-> TRUE,
     tokens |-> [k \in 1..(NO_SPECIES + 2) |->
                    IF k = NO_SPECIES + 2 THEN Num(NaN) ELSE Num(40)]]

\* a row written late in a run, at a time whose spacing exceeds the default dt
LATE_TIME == 131072
LateRow == RowLine([i \in SpeciesIndex |-> IF i \in {1, CARRIER} THEN 40 ELSE 0],
                   LATE_TIME, 2)

\* a row with densities above the noise floor of the stability warning
WarnRow == RowLine([i \in SpeciesIndex |-> IF i = 0 THEN 0 ELSE 1200], 20, 2)

\* a row cut short while being written: long, but with too few tokens
CutRow == [long |-> TRUE, tokens |-> <<Num(40), Num(0)>>]
ShortLine == [long |-> FALSE, tokens |-> <<Num(40)>>]

InitialFiles ==
    {NoFile,
     [exists |-> TRUE, lines |-> <<>>],
     [exists |-> TRUE, lines |-> <<HeaderLine>>],
     [exists |-> TRUE, lines |-> <<ShortLine>>],
     [exists |-> TRUE, lines |-> <<HeaderLine, CutRow>>],
     [exists |-> TRUE, lines |-> <<HeaderLine, NanStepRow>>],
     [exists |-> TRUE, lines |-> <<HeaderLine, LateRow>>],
     [exists |-> TRUE, lines |-> <<HeaderLine, WarnRow>>]}
    \cup {[exists |-> TRUE, lines |-> <<HeaderLine, row>>] : row \in CheckpointRows}
    \cup {[exists |-> TRUE, lines |-> <<HeaderLine, row, ShortLine>>] :
             row \in CheckpointRows}

Init ==
    /\ Constructed
    /\ reactions \in Networks
    /\ pc = "constructed"
    /\ output_csv \in InitialFiles
    /\ probe = NoProbe

\* main.py:33-34, set_species_formula and set_default_species_densities
SetDefaultSpeciesDensities ==
    /\ pc = "constructed"
    /\ density' = [i \in SpeciesIndex |->
                      IF i = 0 THEN set_density(DEFAULT_DENSITY_M)
                      ELSE IF i = CARRIER THEN set_density(DEFAULT_DENSITY_H2O)
                      ELSE IF i = 2 THEN set_density(DEFAULT_DENSITY_E)
                      ELSE set_density(0)]
    /\ pc' = "defaults"
    /\ UNCHANGED <<reactions, rate, lists, loss, source, simulation_time, step_count,
                   dt, plasma_time, total_time, last_saved_simulation_time,
                   peak_electron_temperature_kelvin, electron_temperature_kelvin,
                   output_csv, emitted, log, probe>>

\* the values an invocation may give the flags -Te, -[H2O], -totaltime,
\* -plasmatime, -dt
FlagValues ==
    [Te : {Empty, Text, Num(1)},
     H2O : {Empty, Num(0), Num(5), Num(40), Num(NaN)},
     totaltime : {Empty, Num(0), Num(100)},
     plasmatime : {Empty, Num(0), Num(3)},
     dt : {Empty, Text, Num(0 - 10), Num(0), Num(20)}]

\* set_parameters_from_command_line_input, lines 48-57: the five assignments
Configure(flag_value) ==
    /\ peak_electron_temperature_kelvin' =
          IF flag_value_is_number(flag_value.Te)
          THEN EV_TO_KELVIN * return_float_flag_value(flag_value.Te)
          ELSE peak_electron_temperature_kelvin
    /\ density' =
          IF flag_value_is_number(flag_value.H2O)
          THEN [density EXCEPT ![CARRIER] =
                   set_density(return_float_flag_value(flag_value.H2O))]
          ELSE density
    /\ total_time' =
          IF flag_value_is_number(flag_value.totaltime)
          THEN return_float_flag_value(flag_value.totaltime) ELSE total_time
    /\ plasma_time' =
          IF flag_value_is_number(flag_value.plasmatime)
          THEN return_float_flag_value(flag_value.plasmatime) ELSE plasma_time
    /\ dt' = IF flag_value_is_number(flag_value.dt)
             THEN return_float_flag_value(flag_value.dt) ELSE dt

\* main.py:35, set_parameters_from_command_line_input
SetParametersFromCommandLineInput ==
    /\ pc = "defaults"
    /\ \E flag_value \in FlagValues : Configure(flag_value)
    /\ pc' = "configured"
    /\ UNCHANGED <<reactions, rate, lists, loss, source, simulation_time, step_count,
                   last_saved_simulation_time, electron_temperature_kelvin,
                   output_csv, emitted, log, probe>>

\* main.py:37, read_species_density_data_file; a ValueError is not caught
\* anywhere and ends the program
ReadSpeciesDensityDataFile ==
    /\ pc = "configured"
    /\ LET read == read_species_density_data_file(output_csv) IN
       IF read.outcome = "restored"
       THEN /\ density' = RestoredDensity(read.values)
            /\ simulation_time' = read.values[NO_SPECIES + 1]
            /\ last_saved_simulation_time' = read.values[NO_SPECIES + 1]
            /\ step_count' = read.values[NO_SPECIES + 2]
            /\ pc' = "restored"
            /\ log' = log
       ELSE IF read.outcome = "ValueError in int"
       THEN /\ density' = RestoredDensity(read.values)
            /\ simulation_time' = read.values[NO_SPECIES + 1]
            /\ last_saved_simulation_time' = read.values[NO_SPECIES + 1]
            /\ step_count' = step_count
            /\ pc' = "crashed"
            /\ log' = [log EXCEPT !.crash = "ValueError"]
       ELSE IF read.outcome = "ValueError"
       THEN /\ pc' = "crashed"
            /\ log' = [log EXCEPT !.crash = "ValueError"]
            /\ UNCHANGED <<density, simulation_time, last_saved_simulation_time,
                           step_count>>
       ELSE /\ pc' = "restored"
            /\ UNCHANGED <<density, simulation_time, last_saved_simulation_time,
                           step_count, log>>
    /\ UNCHANGED <<reactions, rate, lists, loss, source, dt, plasma_time, total_time,
                   peak_electron_temperature_kelvin, electron_temperature_kelvin,
                   output_csv, emitted, probe>>

\* main.py:39, set_reaction_rates
SetReactionRates ==
    /\ pc = "restored"
    /\ rate' = set_reaction_rates(reactions, electron_temperature_kelvin)
    /\ pc' = "rates"
    /\ UNCHANGED <<reactions, lists, density, loss, source, simulation_time,
                   step_count, dt, plasma_time, total_time,
                   last_saved_simulation_time, peak_electron_temperature_kelvin,
                   electron_temperature_kelvin, output_csv, emitted, log, probe>>

\* main.py:40, set_reaction_reactant_and_product_species: installs the
\* topology of reaction.py, which the model holds in reactions from the start
SetReactionReactantAndProductSpecies ==
    /\ pc = "rates"
    /\ pc' = "topology"
    /\ UNCHANGED <<reactions, rate, lists, density, loss, source, simulation_time,
                   step_count, dt, plasma_time, total_time,
                   last_saved_simulation_time, peak_electron_temperature_kelvin,
                   electron_temperature_kelvin, output_csv, emitted, log, probe>>

\* process_main_loop, lines 193-199: open output.csv for appending and write
\* the header when simulation_time is 0
EnterMainLoop ==
    /\ pc = "balanced"
    /\ output_csv' = [exists |-> TRUE,
                      lines |-> IF simulation_time = 0
                                THEN Append(output_csv.lines, HeaderLine)
                                ELSE output_csv.lines]
    /\ pc' = "pulse"
    /\ UNCHANGED <<reactions, rate, lists, density, loss, source, simulation_time,
                   step_count, dt, plasma_time, total_time,
                   last_saved_simulation_time, peak_electron_temperature_kelvin,
                   electron_temperature_kelvin, emitted, log, probe>>

\* Mutant of PulseBreak: the pulse ends only when both bounds are reached.
PulseBreakBoth == simulation_time >= total_time /\ simulation_time >= 10 * plasma_time

\* line 201, the exit test of the pulse loop
PulseBreak == simulation_time >= total_time \/ simulation_time >= 10 * plasma_time

\* Mutant of AfterglowBreak: the afterglow ends one step early.
AfterglowBreakEarly == simulation_time + dt >= total_time

\* line 228, the exit test of the afterglow loop
AfterglowBreak == simulation_time >= total_time

\* simulation_time is a binary floating-point number: a sum is rounded to the
\* nearest value its significand can hold, ties to even.  The significand is
\* scaled down with the time grid (53 bits in the program, 12 here), so that
\* a time at which the default dt is below half the spacing lies on the grid.
SIGNIFICAND == 4096

RECURSIVE Spacing(_, _)
Spacing(v, p) == IF v < SIGNIFICAND * p THEN p ELSE Spacing(v, 2 * p)

RoundToSignificand(v) ==
    IF v >= 0 THEN RoundHalfEven(v, Spacing(v, 1))
    ELSE 0 - RoundHalfEven(0 - v, Spacing(0 - v, 1))

\* Mutant of AdvanceTime: the sum is exact.
AdvanceTimeExact(t, step) == t + step

\* lines 220 / 244, simulation_time += dt
AdvanceTime(t, step) == RoundToSignificand(t + step)

\* Mutant of SampleDue: the restart guard is dropped.
SampleDueNoGuard(interval) == step_count % interval = 0

\* lines 210-213 / 234-237, the sample condition
SampleDue(interval) ==
    step_count % interval = 0 /\ simulation_time > last_saved_simulation_time

\* One iteration of either loop of process_main_loop (lines 204-221 with the
\* refresh of electron temperature and rates, lines 231-245 without).  An
\* exception leaves the loop with what was assigned before it was raised.
Iteration(refresh) ==
    LET te == IF refresh
              THEN return_electron_temperature_kelvin_at_time(
                       simulation_time, plasma_time, peak_electron_temperature_kelvin)
              ELSE [raised |-> FALSE, value |-> electron_temperature_kelvin]
        rt == IF refresh THEN set_reaction_rates(reactions, te.value) ELSE rate
        bal == process_balance_equations(density, rt, lists, reactions, loss, source)
        st == process_time_step_species_densities(density, bal, dt)
        new_density == [i \in SpeciesIndex |-> st[i].density]
        interval == return_save_interval_step(Units(simulation_time), Units(dt))
        stepped == [log EXCEPT !.written = {i \in SpeciesIndex : st[i].wrote},
                               !.warned = {i \in SpeciesIndex : st[i].warned},
                               !.before = density,
                               !.iterations = @ + 1]
    IN  IF te.raised
        THEN /\ pc' = "crashed"
             /\ log' = [log EXCEPT !.crash = "ZeroDivisionError"]
             /\ UNCHANGED <<electron_temperature_kelvin, rate, loss, source, density,
                            output_csv, emitted, simulation_time, step_count>>
        ELSE /\ electron_temperature_kelvin' = te.value
             /\ rate' = rt
             /\ loss' = [i \in SpeciesIndex |-> bal[i].loss]
             /\ source' = [i \in SpeciesIndex |-> bal[i].source]
             /\ density' = new_density
             /\ IF interval.raised
                THEN /\ pc' = "crashed"
                     /\ log' = [stepped EXCEPT !.crash = "ZeroDivisionError"]
                     /\ UNCHANGED <<output_csv, emitted, simulation_time, step_count>>
                ELSE /\ pc' = pc
                     /\ log' = stepped
                     /\ IF SampleDue(interval.value)
                        THEN /\ output_csv' =
                                  [output_csv EXCEPT !.lines =
                                      Append(@, RowLine(new_density, simulation_time,
                                                        step_count))]
                             /\ emitted' = Append(emitted, simulation_time)
                        ELSE UNCHANGED <<output_csv, emitted>>
                     /\ simulation_time' = AdvanceTime(simulation_time, dt)
                     /\ step_count' = step_count + 1

\* an iteration of the pulse loop, lines 200-221
PulseIteration ==
    /\ pc = "pulse"
    /\ ~PulseBreak
    /\ log.iterations < MaxIterations
    /\ \A i \in SpeciesIndex : ~fgt(density[i], MaxDensity)
    /\ Iteration(TRUE)
    /\ UNCHANGED <<reactions, lists, dt, plasma_time, total_time,
                   last_saved_simulation_time, peak_electron_temperature_kelvin, probe>>

\* Mutant of PulseExit: the afterglow is entered without lines 223-224.
PulseExitNoRefresh ==
    /\ pc = "pulse"
    /\ PulseBreak
    /\ pc' = "afterglow"
    /\ UNCHANGED <<reactions, rate, lists, density, loss, source, simulation_time,
                   step_count, dt, plasma_time, total_time,
                   last_saved_simulation_time, peak_electron_temperature_kelvin,
                   electron_temperature_kelvin, output_csv, emitted, log, probe>>

\* leaving the pulse loop and lines 223-224
PulseExit ==
    /\ pc = "pulse"
    /\ PulseBreak
    /\ LET te == return_electron_temperature_kelvin_at_time(
                     simulation_time, plasma_time, peak_electron_temperature_kelvin)
       IN  IF te.raised
           THEN /\ pc' = "crashed"
                /\ log' = [log EXCEPT !.crash = "ZeroDivisionError"]
                /\ UNCHANGED <<electron_temperature_kelvin, rate>>
           ELSE /\ electron_temperature_kelvin' = te.value
                /\ rate' = set_reaction_rates(reactions, te.value)
                /\ pc' = "afterglow"
                /\ log' = log
    /\ UNCHANGED <<reactions, lists, density, loss, source, simulation_time,
                   step_count, dt, plasma_time, total_time,
                   last_saved_simulation_time, peak_electron_temperature_kelvin,
                   output_csv, emitted, probe>>

\* Mutant of AfterglowIteration: a written row is remembered as the last one saved.
AfterglowIterationRemembers ==
    /\ pc = "afterglow"
    /\ ~AfterglowBreak
    /\ log.iterations < MaxIterations
    /\ \A i \in SpeciesIndex : ~fgt(density[i], MaxDensity)
    /\ Iteration(FALSE)
    /\ last_saved_simulation_time' =
          IF output_csv' # output_csv THEN simulation_time
          ELSE last_saved_simulation_time
    /\ UNCHANGED <<reactions, lists, dt, plasma_time, total_time,
                   peak_electron_temperature_kelvin, probe>>

\* an iteration of the afterglow loop, lines 227-245
AfterglowIteration ==
    /\ pc = "afterglow"
    /\ ~AfterglowBreak
    /\ log.iterations < MaxIterations
    /\ \A i \in SpeciesIndex : ~fgt(density[i], MaxDensity)
    /\ Iteration(FALSE)
    /\ UNCHANGED <<reactions, lists, dt, plasma_time, total_time,
                   last_saved_simulation_time, peak_electron_temperature_kelvin, probe>>

\* leaving the afterglow loop: process_main_loop returns
AfterglowExit ==
    /\ pc = "afterglow"
    /\ AfterglowBreak
    /\ pc' = "finished"
    /\ UNCHANGED <<reactions, rate, lists, density, loss, source, simulation_time,
                   step_count, dt, plasma_time, total_time,
                   last_saved_simulation_time, peak_electron_temperature_kelvin,
                   electron_temperature_kelvin, output_csv, emitted, log, probe>>

\* A request to cancel the run, as the specification's Integrator receives
\* it.  GlobalModel has no field for it and process_main_loop reads none: the
\* request is kept in the history, where no action of the program looks.
RequestCancellation ==
    /\ pc \in {"pulse", "afterglow"}
    /\ ~log.cancel
    /\ log' = [log EXCEPT !.cancel = TRUE]
    /\ UNCHANGED <<reactions, rate, lists, density, loss, source, simulation_time,
                   step_count, dt, plasma_time, total_time,
                   last_saved_simulation_time, peak_electron_temperature_kelvin,
                   electron_temperature_kelvin, pc, output_csv, emitted, probe>>

Next ==
    \/ SetDefaultSpeciesDensities
    \/ SetParametersFromCommandLineInput
    \/ ReadSpeciesDensityDataFile
    \/ SetReactionRates
    \/ SetReactionReactantAndProductSpecies
    \/ SetBalanceEquations
    \/ EnterMainLoop
    \/ PulseIteration
    \/ PulseExit
    \/ AfterglowIteration
    \/ AfterglowExit
    \/ RequestCancellation

Spec == Init /\ [][Next]_vars

(***************************************************************************)
(* The run on its own, for what it eventually does: one reaction network,  *)
(* no caller.  The interpreter runs the program on, so a step of the       *)
(* program that can be taken is taken.                                     *)
(***************************************************************************)
InitRun ==
    /\ Constructed
    /\ reactions = DecayNetwork(1, 2, 5)
    /\ pc = "constructed"
    /\ output_csv \in {NoFile, [exists |-> TRUE, lines |-> <<HeaderLine, LateRow>>]}
    /\ probe = NoProbe

NextRun ==
    \/ SetDefaultSpeciesDensities
    \/ SetParametersFromCommandLineInput
    \/ ReadSpeciesDensityDataFile
    \/ SetReactionRates
    \/ SetReactionReactantAndProductSpecies
    \/ SetBalanceEquations
    \/ EnterMainLoop
    \/ PulseIteration
    \/ PulseExit
    \/ AfterglowIteration
    \/ AfterglowExit

SpecRun == InitRun /\ [][NextRun]_vars /\ WF_vars(NextRun)

(***************************************************************************)
(* Properties of the program                                               *)
(***************************************************************************)

\* C4 Density invariant: in every reachable state every species density is
\* either exactly 0 or at least the minimum density, never negative and never
\* strictly between 0 and the minimum.
C4_DensityInvariant ==
    \A i \in SpeciesIndex :
        density[i] = 0 \/ (density[i] # NaN /\ density[i] >= MINIMUM_DENSITY)

\* what the floor does give: a density that is a number is 0 or at least the
\* minimum
C4_FloorOnNumbers ==
    \A i \in SpeciesIndex :
        density[i] = NaN \/ density[i] = 0 \/ density[i] >= MINIMUM_DENSITY

\* a step whose loss * dt exceeded the density has stored 0
C4_ClampedStep ==
    /\ log.iterations > 0
    /\ \E i \in 1..LAST_SIMULATED :
          /\ i \in log.written
          /\ log.before[i] >= MINIMUM_DENSITY
          /\ source[i] = 0
          /\ TruncDiv(loss[i] * dt, RATE_DEN) > log.before[i]
          /\ density[i] = 0

\* C5 Zero-balance no-op: a species whose source equals its loss in a step
\* (both zero, or both positive and equal) keeps exactly the density it had
\* before the step, and the step does not write its density.
C5_ZeroBalanceNoOp ==
    log.iterations > 0 =>
        \A i \in SpeciesIndex :
            (source[i] # NaN /\ loss[i] # NaN /\ source[i] = loss[i]) =>
                (i \notin log.written /\ density[i] = log.before[i])

\* a step in which a species had equal positive source and loss, while another
\* species was written
C5_Witness ==
    /\ log.iterations > 0
    /\ \E i \in 1..LAST_SIMULATED :
          /\ source[i] = loss[i]
          /\ source[i] > 0
          /\ density[i] = log.before[i]
          /\ density[i] >= MINIMUM_DENSITY
    /\ log.written # {}

\* C6 Sample monotonicity: for every step size dt the configuration accepts,
\* consecutively emitted sample rows have strictly increasing simulation_time.
C6_SampleMonotonicity ==
    \A k \in 1..(Len(emitted) - 1) : emitted[k] < emitted[k + 1]

\* with a positive step the sample times do increase
C6_PositiveStep ==
    dt > 0 => \A k \in 1..(Len(emitted) - 1) : emitted[k] < emitted[k + 1]

\* the rate constants of the single-reaction networks examined
DecayRates == 1..20

\* the amount k * A * dt moved by the last step of the network A -> B
Moved(a, k) == TruncDiv(k * log.before[a] * dt, RATE_DEN)

Bypassed(i) == density[CARRIER] = 0 /\ i \in SPECIES_CONTAINING_H

\* the last step of A -> B was an explicit-Euler step
EulerStep(a, b, k) ==
    /\ density[a] = log.before[a] - Moved(a, k)
    /\ density[b] = log.before[b] + Moved(a, k)
    /\ density[a] + density[b] = log.before[a] + log.before[b]

\* no density is nan and the step left A and B at or above the floor
StaysAboveFloor(a, b, k) ==
    /\ \A i \in SpeciesIndex : density[i] # NaN /\ log.before[i] # NaN
    /\ log.before[a] - Moved(a, k) >= MINIMUM_DENSITY
    /\ log.before[b] + Moved(a, k) >= MINIMUM_DENSITY

\* ten steps of the reference dt from time 0 reach total_time
TenSteps ==
    (/\ pc = "finished"
     /\ dt = REFERENCE_DT
     /\ total_time = 10 * REFERENCE_DT
     /\ simulation_time = log.iterations * dt) => log.iterations = 10

C9_PhaseStateMachine ==
    [][/\ pc = "balanced" => pc' \in {"balanced", "pulse"}
       /\ pc = "pulse" => pc' \in {"pulse", "afterglow", "crashed"}
       /\ pc = "afterglow" => pc' \in {"afterglow", "finished", "crashed"}
       /\ pc = "finished" => pc' = "finished"
       /\ pc = "crashed" => pc' = "crashed"
       /\ (/\ pc = "pulse"
           /\ log'.cancel = log.cancel
           /\ \/ simulation_time >= total_time
              \/ simulation_time >= 10 * plasma_time) => pc' # "pulse"
       /\ (pc = "pulse" /\ pc' = "afterglow") =>
              \/ simulation_time >= total_time
              \/ simulation_time >= 10 * plasma_time
       /\ (pc # "finished" /\ pc' = "finished") => simulation_time >= total_time
      ]_vars

\* a finished run that emitted rows in the pulse and in the afterglow
C9_Witness ==
    /\ pc = "finished"
    /\ plasma_time > 0
    /\ simulation_time >= total_time
    /\ \E k \in 1..Len(emitted) : emitted[k] < 10 * plasma_time
    /\ \E k \in 1..Len(emitted) : emitted[k] >= 10 * plasma_time

\* C10 Checkpoint failure is non-fatal: when output.csv is missing, has no line
\* longer than the threshold, yields fewer than NO_SPECIES + 2 tokens, or its
\* last long line holds a non-numeric token, read_species_density_data_file
\* returns normally and leaves every density at its default, simulation_time
\* at 0 and step_count at 0.
C10_CheckpointFailureNonFatal ==
    (/\ pc = "restored" \/ (pc = "crashed" /\ log.crash = "ValueError")
     /\ read_species_density_data_file(output_csv).outcome # "restored") =>
        /\ pc = "restored"
        /\ density[0] = DEFAULT_DENSITY_M
        /\ density[2] = DEFAULT_DENSITY_E
        /\ \A i \in SpeciesIndex \ {0, 2, CARRIER} : density[i] = 0
        /\ simulation_time = 0
        /\ step_count = 0
        /\ last_saved_simulation_time = NEVER_SAVED

\* the fallback that does hold: no exception but the ValueError of float()
\* ends the read, and a read that returns without restoring changes nothing
C10_FallbackWithoutText ==
    (/\ pc = "restored"
     /\ read_species_density_data_file(output_csv).outcome # "restored") =>
        /\ density[0] = DEFAULT_DENSITY_M
        /\ density[2] = DEFAULT_DENSITY_E
        /\ \A i \in SpeciesIndex \ {0, 2, CARRIER} : density[i] = 0
        /\ simulation_time = 0
        /\ step_count = 0
        /\ last_saved_simulation_time = NEVER_SAVED

\* the numeric tokens of the last long line of output.csv, in order
DataValues ==
    LET tokens == output_csv.lines[LastLong(output_csv.lines)].tokens
    IN  SelectSeq(tokens, LAMBDA token : token.kind = "num")

\* the read has just ended on a file whose last long line holds only numbers,
\* at least NO_SPECIES + 2 of them, the last of them with an integer value
RestoreApplies ==
    /\ pc = "restored" \/ (pc = "crashed" /\ log.crash = "ValueError")
    /\ output_csv.exists
    /\ LongLines(output_csv.lines) # {}
    /\ \A k \in 1..Len(output_csv.lines[LastLong(output_csv.lines)].tokens) :
          output_csv.lines[LastLong(output_csv.lines)].tokens[k].kind # "text"
    /\ Len(DataValues) >= NO_SPECIES + 2
    /\ DataValues[NO_SPECIES + 2].val # NaN

Floored(v) == IF flt(v, MINIMUM_DENSITY) THEN 0 ELSE v

RECURSIVE TokenSum(_)
TokenSum(n) == IF n = 0 THEN 0 ELSE fadd(DataValues[n].val, TokenSum(n - 1))

RestoredBut0 ==
    /\ pc = "restored"
    /\ \A i \in 1..NO_SPECIES : density[i] = Floored(DataValues[i].val)
    /\ simulation_time = DataValues[NO_SPECIES + 1].val
    /\ step_count = DataValues[NO_SPECIES + 2].val
    /\ last_saved_simulation_time = simulation_time

C12_HeaderOnce ==
    \A k \in 1..Len(output_csv.lines) : output_csv.lines[k] = HeaderLine => k = 1

\* what the code does give: entering the loop appends the header exactly when
\* simulation_time is 0, whatever the stream already holds
C12_HeaderWhenTimeZero ==
    [][(pc = "balanced" /\ pc' = "pulse") =>
          output_csv'.lines = IF simulation_time = 0
                              THEN Append(output_csv.lines, HeaderLine)
                              ELSE output_csv.lines]_vars

(***************************************************************************)
(* set_parameters_from_command_line_input on argument lists.  An argument  *)
(* is a flag name (kind "flag", val its flag index 0..4), text float()     *)
(* rejects, or a number; argument 1 is the program name.                   *)
(***************************************************************************)
MaxArguments == 4

Flag(flag_index) == [kind |-> "flag", val |-> flag_index]
FlagIndex == 0..4
ArgumentTokens == {Flag(f) : f \in FlagIndex} \cup {Text, Num(0), Num(20)}

RECURSIVE ArgumentLists(_)
ArgumentLists(n) ==
    IF n = 0 THEN {<<Text>>}
    ELSE ArgumentLists(n - 1)
         \cup {Append(argument, token) :
                  argument \in {a \in ArgumentLists(n - 1) : Len(a) = n},
                  token \in ArgumentTokens}

\* CommandLine.set_flag_values for one flag: each match overwrites the value,
\* "EMPTY" when the flag is the last argument
RECURSIVE FlagValueOf(_, _, _, _)
FlagValueOf(argument, flag_index, j, value) ==
    IF j > Len(argument) THEN value
    ELSE FlagValueOf(argument, flag_index, j + 1,
                     IF argument[j] = Flag(flag_index)
                     THEN IF j + 1 <= Len(argument) THEN argument[j + 1] ELSE Empty
                     ELSE value)

set_flag_values(argument) ==
    [Te |-> FlagValueOf(argument, 0, 1, Empty),
     H2O |-> FlagValueOf(argument, 1, 1, Empty),
     totaltime |-> FlagValueOf(argument, 2, 1, Empty),
     plasmatime |-> FlagValueOf(argument, 3, 1, Empty),
     dt |-> FlagValueOf(argument, 4, 1, Empty)]

InitArguments ==
    /\ Constructed
    /\ reactions = [j \in ReactionNo |-> EmptyReaction]
    /\ pc = "constructed"
    /\ output_csv = NoFile
    /\ probe = NoProbe

SetParametersFromArguments ==
    /\ pc = "defaults"
    /\ \E argument \in ArgumentLists(MaxArguments) :
          /\ Configure(set_flag_values(argument))
          /\ probe' = [NoProbe EXCEPT !.call = "set_parameters_from_command_line_input",
                                       !.arg = argument]
    /\ pc' = "configured"
    /\ UNCHANGED <<reactions, rate, lists, loss, source, simulation_time, step_count,
                   last_saved_simulation_time, electron_temperature_kelvin,
                   output_csv, emitted, log>>

NextArguments == SetDefaultSpeciesDensities \/ SetParametersFromArguments

SpecArguments == InitArguments /\ [][NextArguments]_vars

\* the positions at which a flag occurs in the argument list of the call
Occurrences(flag_index) ==
    {j \in 1..Len(probe.arg) : probe.arg[j] = Flag(flag_index)}

LastOccurrence(flag_index) ==
    CHOOSE j \in Occurrences(flag_index) : \A h \in Occurrences(flag_index) : h <= j

\* the flag is absent, is the last argument, or is followed by a value that is
\* not a number
NoNumber(flag_index) ==
    \/ Occurrences(flag_index) = {}
    \/ LastOccurrence(flag_index) = Len(probe.arg)
    \/ probe.arg[LastOccurrence(flag_index) + 1].kind # "num"

Given(flag_index) == probe.arg[LastOccurrence(flag_index) + 1].val

\* C13 Per-field configuration fallback: a parameter whose flag is absent, is
\* the last argument, or is followed by a non-numeric value keeps its built-in
\* default, and every flag followed by a number is applied whatever the other
\* flags are followed by.
C13_PerFieldFallback ==
    probe.call = "set_parameters_from_command_line_input" =>
        /\ peak_electron_temperature_kelvin =
              IF NoNumber(0) THEN GAS_TEMPERATURE ELSE EV_TO_KELVIN * Given(0)
        /\ density[CARRIER] =
              IF NoNumber(1) THEN DEFAULT_DENSITY_H2O
              ELSE IF Given(1) < MINIMUM_DENSITY THEN 0 ELSE Given(1)
        /\ total_time = IF NoNumber(2) THEN DEFAULT_TOTAL_TIME ELSE Given(2)
        /\ plasma_time = IF NoNumber(3) THEN DEFAULT_PLASMA_TIME ELSE Given(3)
        /\ dt = IF NoNumber(4) THEN REFERENCE_DT ELSE Given(4)
        /\ \A i \in SpeciesIndex \ {0, 2, CARRIER} : density[i] = 0
        /\ density[0] = DEFAULT_DENSITY_M
        /\ density[2] = DEFAULT_DENSITY_E

\* -dt followed by text and -totaltime followed by a number, in one call: dt
\* kept its default and total_time was set
C13_Witness ==
    /\ probe.call = "set_parameters_from_command_line_input"
    /\ \E j \in 1..(Len(probe.arg) - 1) :
          probe.arg[j] = Flag(4) /\ probe.arg[j + 1] = Text
    /\ \E j \in 1..(Len(probe.arg) - 1) :
          probe.arg[j] = Flag(2) /\ probe.arg[j + 1] = Num(20)
    /\ dt = REFERENCE_DT
    /\ total_time = 20

\* C14 Cooperative cancellation: once cancellation has been requested, no
\* further pulse or afterglow step is started and the state stays as the last
\* complete step left it.
C14_CooperativeCancellation ==
    [][log.cancel =>
          /\ log'.iterations = log.iterations
          /\ density' = density
          /\ simulation_time' = simulation_time
          /\ step_count' = step_count
          /\ output_csv' = output_csv]_vars

(***************************************************************************)
(* Properties of the incidence lists                                       *)
(***************************************************************************)
Disjoint(list_a, list_b) ==
    \A a \in 1..list_a[0], b \in 1..list_b[0] : list_a[a] # list_b[b]

NoRepeat(list_no) ==
    \A a \in 1..list_no[0], b \in 1..list_no[0] : a # b => list_no[a] # list_no[b]

MultipliersInRange(list_no, list_mul) ==
    \A a \in 1..list_no[0] : list_mul[a] >= 1 /\ list_mul[a] <= MAX_SLOTS

\* C15 Source/loss disjointness: after set_balance_equations, for every species
\* i in 1..NO_SPECIES no reaction id is in both of i's lists, each id is at
\* most once in a list, and every multiplier at positions 1..count is an
\* integer between 1 and 4.
C15_SourceLossDisjoint ==
    pc = "balanced" =>
        \A i \in 1..NO_SPECIES :
            /\ Disjoint(lists[i].sources, lists[i].losses)
            /\ NoRepeat(lists[i].sources)
            /\ NoRepeat(lists[i].losses)
            /\ MultipliersInRange(lists[i].sources, lists[i].sources_multiplier)
            /\ MultipliersInRange(lists[i].losses, lists[i].losses_multiplier)

\* a species on both sides of two reactions, kept as a source of one with the
\* largest multiplier and as a loss of the other
C15_Witness ==
    /\ pc = "balanced"
    /\ \E i \in 1..NO_SPECIES :
          /\ \A j \in ReactionNo :
                /\ CountSlots(reactions[j].reactants, i) > 0
                /\ CountSlots(reactions[j].products, i) > 0
          /\ lists[i].sources[0] = 1
          /\ lists[i].losses[0] = 1
          /\ lists[i].sources_multiplier[1] + lists[i].losses_multiplier[1] >= MAX_SLOTS

\* the net number of times reaction j produces (consumes) species i
NetSource(i, j) == CountSlots(reactions[j].products, i)
                   - CountSlots(reactions[j].reactants, i)
NetLoss(i, j) == 0 - NetSource(i, j)

\* a list holds, at 1..count and in ascending reaction id, exactly the
\* reactions of kept with their multipliers, count at 0, zeros above count
Compact(list_no, list_mul, kept, i, Net(_, _)) ==
    /\ list_no[0] = Cardinality(kept)
    /\ list_mul[0] = 0
    /\ {list_no[h] : h \in 1..list_no[0]} = kept
    /\ \A h \in 1..list_no[0] : list_mul[h] = Net(i, list_no[h])
    /\ \A h \in 1..(list_no[0] - 1) : list_no[h] < list_no[h + 1]
    /\ \A h \in (list_no[0] + 1)..NO_REACTIONS : list_no[h] = 0 /\ list_mul[h] = 0

\* C16 Compaction: after process_reduce_lists_of_reaction_no each list holds
\* exactly the entries whose resolved multiplier is positive, in ascending
\* reaction id, contiguously at 1..count; element 0 is the count and every
\* position above count holds 0 in the id list and in the multiplier list.
C16_Compaction ==
    pc = "balanced" =>
        \A i \in 1..NO_SPECIES :
            /\ Compact(lists[i].sources, lists[i].sources_multiplier,
                       {j \in ReactionNo : NetSource(i, j) > 0}, i, NetSource)
            /\ Compact(lists[i].losses, lists[i].losses_multiplier,
                       {j \in ReactionNo : NetLoss(i, j) > 0}, i, NetLoss)

\* the first raw entry of a source list cancelled and a later one moved down
\* to position 1
C16_Witness ==
    /\ pc = "balanced"
    /\ \E i \in 1..NO_SPECIES :
          /\ CountSlots(reactions[1].products, i) > 0
          /\ NetSource(i, 1) = 0
          /\ lists[i].sources[0] = 1
          /\ lists[i].sources[1] > 1
          /\ \A h \in 2..NO_REACTIONS : lists[i].sources[h] = 0

(***************************************************************************)
(* Properties of the sample rows                                           *)
(***************************************************************************)
\* a step that is a whole iteration of the pulse or of the afterglow loop
CompletedIteration ==
    /\ pc \in {"pulse", "afterglow"}
    /\ pc' = pc
    /\ log'.iterations = log.iterations + 1

\* the save interval at the values held when the iteration begins
IntervalBefore == return_save_interval_step(Units(simulation_time), Units(dt)).value

RowWritten == output_csv'.lines # output_csv.lines

Restored == last_saved_simulation_time # NEVER_SAVED

\* C17 Sample emission condition: in every pulse and afterglow iteration a row
\* is written if and only if step_count mod save_interval = 0 and
\* simulation_time > last_saved_simulation_time, both taken before
\* simulation_time and step_count are advanced; and after a checkpoint restore
\* no row is emitted whose simulation_time is the restored simulation_time.
C17_SampleEmission ==
    /\ [][CompletedIteration =>
             /\ RowWritten <=>
                   (/\ step_count % IntervalBefore = 0
                    /\ simulation_time > last_saved_simulation_time)
             /\ RowWritten =>
                   /\ output_csv'.lines =
                         Append(output_csv.lines,
                                RowLine(density', simulation_time, step_count))
                   /\ emitted' = Append(emitted, simulation_time)
             /\ ~RowWritten => emitted' = emitted]_vars
    /\ [](Restored =>
             \A k \in 1..Len(emitted) : emitted[k] # last_saved_simulation_time)

\* a restored run that wrote a row and skipped more than the iteration at the
\* restored time
C17_Witness ==
    /\ Restored
    /\ pc \in {"pulse", "afterglow"}
    /\ Len(emitted) >= 1
    /\ log.iterations > Len(emitted) + 1

(***************************************************************************)
(* Properties of the balance evaluation                                    *)
(***************************************************************************)
\* the product of the densities of the first n reactant slots of reaction j
RECURSIVE SlotProduct(_, _, _)
SlotProduct(j, dens, n) ==
    IF n = 0 THEN 1
    ELSE fmul(SlotProduct(j, dens, n - 1), dens[reactions[j].reactants[n]])

\* the sum of rate * multiplier * product over the first n entries of a list
RECURSIVE TermSum(_, _, _, _, _)
TermSum(list_no, list_mul, rt, dens, n) ==
    IF n = 0 THEN 0
    ELSE fadd(TermSum(list_no, list_mul, rt, dens, n - 1),
              fmul(fmul(rt[list_no[n]], list_mul[n]),
                   SlotProduct(list_no[n], dens, Len(reactions[list_no[n]].reactants))))

Simulated == 1..LAST_SIMULATED

BypassedBefore(i) == density[CARRIER] = 0 /\ i \in SPECIES_CONTAINING_H

\* C18 Balance evaluation: after process_balance_equations, for every evaluated
\* (non-bypassed) species i, source is the sum over i's source list of
\* rate_constant(j) * m * (product of the current densities of all reactant
\* slots of j); loss is the same sum over i's loss list when density(i) > 0 and
\* 0 when density(i) is 0; neither carries over a value of an earlier step.
C18_BalanceEvaluation ==
    [][CompletedIteration =>
          \A i \in Simulated :
              ~BypassedBefore(i) =>
                  /\ source'[i] = TermSum(lists[i].sources, lists[i].sources_multiplier,
                                          rate', density, lists[i].sources[0])
                  /\ flt(0, density[i]) =>
                        loss'[i] = TermSum(lists[i].losses, lists[i].losses_multiplier,
                                           rate', density, lists[i].losses[0])
                  /\ density[i] = 0 => loss'[i] = 0]_vars

\* an iteration gave one species a loss through a multiplier 2 and gave a
\* species at density 0 a source and no loss
C18_Witness ==
    /\ pc \in {"pulse", "afterglow"}
    /\ log.iterations >= 1
    /\ \E i \in Simulated :
          /\ lists[i].losses[0] = 1
          /\ lists[i].losses_multiplier[1] = 2
          /\ flt(0, log.before[i])
          /\ loss[i] = 2 * rate[lists[i].losses[1]] * log.before[i] * log.before[i]
          /\ loss[i] > 0
    /\ \E i \in Simulated :
          /\ log.before[i] = 0
          /\ source[i] > 0
          /\ loss[i] = 0

\* a step in which process_balance_equations and
\* process_time_step_species_densities have run
EvaluatedStep ==
    /\ pc \in {"pulse", "afterglow"}
    /\ log'.iterations = log.iterations + 1

\* C19 Carrier bypass: in a step where the carrier species H2O has density
\* exactly 0, every hydrogen-containing species ends balance evaluation with
\* loss = 0 and source = 0 and its density is unchanged by the step, whatever
\* its density and incidence lists; when the carrier density is not 0 no
\* species is bypassed.
C19_CarrierBypass ==
    [][EvaluatedStep =>
          \A i \in SPECIES_CONTAINING_H :
              /\ density[CARRIER] = 0 =>
                    /\ loss'[i] = 0
                    /\ source'[i] = 0
                    /\ density'[i] = density[i]
              /\ density[CARRIER] # 0 =>
                    /\ source'[i] = TermSum(lists[i].sources, lists[i].sources_multiplier,
                                            rate', density, lists[i].sources[0])
                    /\ flt(0, density[i]) =>
                          loss'[i] = TermSum(lists[i].losses, lists[i].losses_multiplier,
                                             rate', density, lists[i].losses[0])]_vars

\* without the carrier, a hydrogen-containing species with a positive density
\* and a loss that would have been positive kept its density
C19_Witness ==
    /\ pc \in {"pulse", "afterglow"}
    /\ log.iterations >= 1
    /\ density[CARRIER] = 0
    /\ \E i \in SPECIES_CONTAINING_H :
          /\ flt(0, log.before[i])
          /\ flt(0, TermSum(lists[i].losses, lists[i].losses_multiplier,
                            rate, log.before, lists[i].losses[0]))
          /\ loss[i] = 0
          /\ source[i] = 0
          /\ density[i] = log.before[i]

(***************************************************************************)
(* Properties of the simulated range                                       *)
(***************************************************************************)
\* loss and source of species i are those of this step's balance evaluation
Recomputed(i) ==
    IF BypassedBefore(i)
    THEN loss'[i] = 0 /\ source'[i] = 0
    ELSE /\ source'[i] = TermSum(lists[i].sources, lists[i].sources_multiplier,
                                 rate', density, lists[i].sources[0])
         /\ loss'[i] = IF fgt(density[i], 0)
                       THEN TermSum(lists[i].losses, lists[i].losses_multiplier,
                                    rate', density, lists[i].losses[0])
                       ELSE 0

\* the density of species i is advanced by the update rule
Advanced(i) ==
    LET net == fsub(source'[i], loss'[i]) IN
    density'[i] = IF (fgt(loss'[i], 0) \/ fgt(source'[i], 0)) /\ fne(net, 0)
                  THEN set_density(fadd(density[i],
                                        TruncDiv(fmul(net, dt), RATE_DEN)))
                  ELSE density[i]

Untouched(i) ==
    /\ loss'[i] = loss[i]
    /\ source'[i] = source[i]
    /\ density'[i] = density[i]

\* C20 Simulated range, as stated: in every integration step every species
\* index in [1, N], N the number of species columns of a sample row, has its
\* loss and source recomputed and its density advanced by the update rule, and
\* index 0 is never evaluated or updated.
C20_SimulatedRangeAsStated ==
    [][EvaluatedStep =>
          /\ \A i \in 1..NO_SPECIES : Recomputed(i) /\ Advanced(i)
          /\ Untouched(0)]_vars

\* C20 Simulated range, amended: the species recomputed and advanced in every
\* integration step are those of index 1 to LAST_SIMULATED (50 of the 53
\* columns of a row); index 0 and the indices above LAST_SIMULATED, the
\* carrier among them, are never evaluated or updated by a step.
C20_SimulatedRange ==
    [][EvaluatedStep =>
          /\ \A i \in Simulated : Recomputed(i) /\ Advanced(i)
          /\ \A i \in SpeciesIndex \ Simulated : Untouched(i)]_vars

\* a step advanced a simulated species out of the carrier, whose own loss
\* stayed 0 and whose density stayed as it was
C20_Witness ==
    /\ pc \in {"pulse", "afterglow"}
    /\ log.iterations >= 1
    /\ lists[CARRIER].losses[0] >= 1
    /\ flt(0, log.before[CARRIER])
    /\ flt(0, TermSum(lists[CARRIER].losses, lists[CARRIER].losses_multiplier,
                      rate, log.before, lists[CARRIER].losses[0]))
    /\ loss[CARRIER] = 0
    /\ density[CARRIER] = log.before[CARRIER]
    /\ \E i \in Simulated : source[i] > 0 /\ density[i] # log.before[i]

(***************************************************************************)
(* Termination                                                             *)
(***************************************************************************)
\* simulation_time at loop entry
StartTime == IF Restored THEN last_saved_simulation_time ELSE 0

\* the model follows a run no further
CutShort ==
    \/ log.iterations >= MaxIterations
    \/ \E i \in SpeciesIndex : fgt(density[i], MaxDensity)

\* C21 Termination: for every dt > 0 and finite total_time and plasma_time,
\* process_main_loop terminates; on exit simulation_time >= total_time and, if
\* an iteration ran, simulation_time - dt < total_time: the n-th iteration
\* leaves simulation_time at start_time + n * dt and the loops run the
\* smallest number of iterations n with start_time + n * dt >= total_time.
C21_Termination ==
    /\ []((pc \in {"pulse", "afterglow", "finished"} /\ dt > 0) =>
             simulation_time = StartTime + log.iterations * dt)
    /\ []((pc = "finished" /\ dt > 0) =>
             /\ simulation_time >= total_time
             /\ log.iterations >= 1 => simulation_time - dt < total_time)
    /\ (pc = "pulse" /\ dt > 0) ~> (pc = "finished" \/ CutShort)

\* every sum start_time + n * dt of the run is held exactly
ExactTimes == StartTime + MaxIterations * dt < SIGNIFICAND

\* what does hold: C21 for the runs whose times are all held exactly
C21_TerminationWhenExact ==
    /\ []((pc \in {"pulse", "afterglow", "finished"} /\ dt > 0 /\ ExactTimes) =>
             simulation_time = StartTime + log.iterations * dt)
    /\ []((pc = "finished" /\ dt > 0 /\ ExactTimes) =>
             /\ simulation_time >= total_time
             /\ log.iterations >= 1 => simulation_time - dt < total_time)
    /\ (pc = "pulse" /\ dt > 0 /\ ExactTimes) ~> (pc = "finished" \/ CutShort)

(***************************************************************************)
(* Properties of the afterglow                                             *)
(***************************************************************************)
\* a step that runs the balance evaluation of an afterglow iteration
AfterglowStep == pc = "afterglow" /\ log'.iterations = log.iterations + 1

\* C22 Afterglow freezes rates: the rate constants are refreshed exactly once
\* between the last pulse iteration and the first afterglow iteration (in the
\* step that leaves the pulse, for the electron temperature at that time), and
\* every afterglow iteration leaves every rate constant and the electron
\* temperature unchanged.
C22_AfterglowFreezesRates ==
    [][/\ (pc = "pulse" /\ pc' = "afterglow") =>
              /\ electron_temperature_kelvin' =
                    return_electron_temperature_kelvin_at_time(
                        simulation_time, plasma_time,
                        peak_electron_temperature_kelvin).value
              /\ rate' = [j \in ReactionNo |->
                             RateLaw(reactions, j, GAS_TEMPERATURE,
                                     electron_temperature_kelvin')]
       /\ pc = "afterglow" =>
              /\ rate' = rate
              /\ electron_temperature_kelvin' = electron_temperature_kelvin]_vars

\* afterglow iterations after a pulse whose last iteration used another rate
\* for a temperature-dependent reaction
C22_Witness ==
    /\ pc = "afterglow"
    /\ dt > 0
    /\ plasma_time > 0
    /\ simulation_time >= 10 * plasma_time + 2 * dt
    /\ StartTime < 10 * plasma_time
    /\ \E j \in ReactionNo :
          /\ reactions[j].kT > 0
          /\ rate[j] # RateLaw(reactions, j, GAS_TEMPERATURE,
                               return_electron_temperature_kelvin_at_time(
                                   StartTime, plasma_time,
                                   peak_electron_temperature_kelvin).value)

\* C23 Afterglow electron temperature: whenever an afterglow iteration runs its
\* balance evaluation, electron_temperature is gas_temperature and the rate
\* constants in use are those of (gas_temperature, gas_temperature), for every
\* total_time and plasma_time, also when the pulse loop was left because
\* total_time was reached before 10 * plasma_time.
C23_AfterglowTemperature ==
    [][AfterglowStep =>
          /\ electron_temperature_kelvin = GAS_TEMPERATURE
          /\ electron_temperature_kelvin' = GAS_TEMPERATURE
          /\ rate = [j \in ReactionNo |->
                        RateLaw(reactions, j, GAS_TEMPERATURE, GAS_TEMPERATURE)]
          /\ rate' = rate]_vars

\* a finished run with a peak temperature above the gas temperature, pulse
\* iterations and afterglow iterations
C23_Witness ==
    /\ pc = "finished"
    /\ peak_electron_temperature_kelvin > GAS_TEMPERATURE
    /\ electron_temperature_kelvin = GAS_TEMPERATURE
    /\ dt > 0
    /\ plasma_time > 0
    /\ StartTime < 10 * plasma_time
    /\ simulation_time >= 10 * plasma_time + dt
    /\ \E j \in ReactionNo : reactions[j].kT > 0

(***************************************************************************)
(* Properties of the stability warning                                     *)
(***************************************************************************)
\* (source - loss) * dt of species i in this step
DeltaOf(i) == TruncDiv(fmul(fsub(source'[i], loss'[i]), dt), RATE_DEN)

WarningFired(i) == i \in log'.warned

WarningCondition(i) ==
    /\ fgt(fsub(source'[i], loss'[i]), 0)
    /\ fgt(DeltaOf(i), density[i])
    /\ fgt(density[i], NOISE_FLOOR)

\* the run goes on after the step
RunContinues ==
    /\ pc' = pc
    /\ step_count' = step_count + 1
    /\ simulation_time' = AdvanceTime(simulation_time, dt)

\* C24 Stability warning is diagnostic only, as stated: the warning is emitted
\* exactly when source - loss > 0, (source - loss) * dt exceeds the prior
\* density and the prior density exceeds 1e5; the density stored after the
\* step is prior + (source - loss) * dt whether or not the warning fired, no
\* other state changes and the run continues.
C24_WarningDiagnosticOnlyAsStated ==
    [][EvaluatedStep =>
          \A i \in Simulated :
              /\ WarningFired(i) <=> WarningCondition(i)
              /\ density'[i] = fadd(density[i], DeltaOf(i))
              /\ WarningFired(i) => RunContinues]_vars

\* C24 Stability warning is diagnostic only, amended: the warning is emitted
\* exactly when its three conditions hold; the density stored after the step
\* is that of the update rule, prior + (source - loss) * dt passed through the
\* density floor, whether or not the warning fired; the balance of the step is
\* the one evaluated before it, and the run continues.
C24_WarningDiagnosticOnly ==
    [][EvaluatedStep =>
          \A i \in Simulated :
              /\ WarningFired(i) <=> WarningCondition(i)
              /\ Recomputed(i)
              /\ Advanced(i)
              /\ WarningFired(i) =>
                    /\ density'[i] = fadd(density[i], DeltaOf(i))
                    /\ RunContinues]_vars

\* a step that raised the warning for one species and stored its sum, and
\* stored another species without a warning
C24_Witness ==
    /\ pc \in {"pulse", "afterglow"}
    /\ \E i \in log.warned :
          /\ log.before[i] > NOISE_FLOOR
          /\ density[i] > 2 * log.before[i]
          /\ density[i] = log.before[i] + TruncDiv((source[i] - loss[i]) * dt, RATE_DEN)
    /\ \E i \in Simulated \ log.warned : i \in log.written

(***************************************************************************)
(* Properties of the order of evaluation                                   *)
(***************************************************************************)
\* the orders in which the simulated species can be updated
Orders == {o \in [Simulated -> Simulated] : \A a, b \in Simulated : a # b => o[a] # o[b]}

\* the densities after the first n species of order o have been advanced with
\* the balance of this step
RECURSIVE UpdatedInOrder(_, _)
UpdatedInOrder(o, n) ==
    IF n = 0 THEN density
    ELSE LET earlier == UpdatedInOrder(o, n - 1)
             i == o[n]
             net == fsub(source'[i], loss'[i])
         IN  [earlier EXCEPT ![i] =
                 IF (fgt(loss'[i], 0) \/ fgt(source'[i], 0)) /\ fne(net, 0)
                 THEN set_density(fadd(earlier[i], TruncDiv(fmul(net, dt), RATE_DEN)))
                 ELSE earlier[i]]

\* C25 Step-synchronous update: within one integration step the source and
\* loss of every species are computed from the densities as they were at the
\* start of the step; no density is written before the balance evaluation is
\* complete, so the result of the step is the same for every order in which
\* the species are updated.
C25_StepSynchronous ==
    [][EvaluatedStep =>
          /\ \A i \in Simulated : Recomputed(i)
          /\ \A o \in Orders : density' = UpdatedInOrder(o, LAST_SIMULATED)]_vars

\* a step that advanced one species and gave another a source from the first
\* one's density at the start of the step, not from its advanced density
C25_Witness ==
    /\ pc \in {"pulse", "afterglow"}
    /\ log.iterations >= 1
    /\ \E i, h \in Simulated :
          /\ i < h
          /\ density[i] # log.before[i]
          /\ source[h] > 0
          /\ source[h] = TermSum(lists[h].sources, lists[h].sources_multiplier,
                                 rate, log.before, lists[h].sources[0])
          /\ source[h] # TermSum(lists[h].sources, lists[h].sources_multiplier,
                                 rate, [log.before EXCEPT ![i] = density[i]],
                                 lists[h].sources[0])

(***************************************************************************)
(* Resuming from a row                                                     *)
(***************************************************************************)
\* what read_species_density_data_file would restore from the file as the
\* step leaves it
RowRead == read_species_density_data_file(output_csv')

\* C26 Resume equivalence: a run stopped right after emitting a sample row and
\* resumed from that row with the same dt, total_time and plasma_time goes
\* through the same (densities, simulation_time, step_count) states as the
\* uninterrupted run: the triple the row restores is the state from which the
\* uninterrupted run executes its next step.  Stated for dt > 0.
C26_ResumeEquivalence ==
    [][(CompletedIteration /\ RowWritten /\ dt > 0) =>
          /\ RowRead.outcome = "restored"
          /\ \A i \in 1..NO_SPECIES : RestoredDensity(RowRead.values)[i] = density'[i]
          /\ RowRead.values[NO_SPECIES + 1] = simulation_time'
          /\ RowRead.values[NO_SPECIES + 2] = step_count']_vars

\* what does hold: the row restores the densities after the step together
\* with the time and the step count from before the step
C26_RowHoldsTimeBeforeAdvance ==
    [][(CompletedIteration /\ RowWritten) =>
          /\ RowRead.outcome = "restored"
          /\ \A i \in 1..NO_SPECIES :
                RestoredDensity(RowRead.values)[i] = set_density(fmt_float(density'[i]))
          /\ RowRead.values[NO_SPECIES + 1] = fmt_time(simulation_time)
          /\ RowRead.values[NO_SPECIES + 2] = step_count]_vars

(***************************************************************************)
(* Monotonicity of the save interval                                       *)
(***************************************************************************)
\* a.m * 10^a.e <= b.m * 10^b.e, for mantissas below 10
TimeLeq(a, b) ==
    IF a.m = 0 THEN TRUE
    ELSE IF b.m = 0 THEN FALSE
    ELSE IF a.e = b.e THEN a.m <= b.m
    ELSE a.e < b.e

\* the interval of the probed call is not above that of time later
NotAbove(later) ==
    probe.result.value <= return_save_interval_step(later, probe.step).value

\* C27 Save-interval monotonicity: for a fixed dt > 0 return_save_interval_step
\* is non-decreasing in simulation_time over all simulation_time >= 0.
C27_SaveIntervalMonotone ==
    (probe.call = "return_save_interval_step" /\ probe.step.m > 0) =>
        \A later \in ProbeTimes :
            (TimeLeq(probe.time, later) /\ Fits(later, probe.step)) => NotAbove(later)

\* what does hold: non-decreasing up to 1e3 s, the last time of the table
C27_MonotoneWithinTable ==
    (probe.call = "return_save_interval_step" /\ probe.step.m > 0) =>
        \A later \in ProbeTimes :
            (TimeLeq(probe.time, later) /\ Fits(later, probe.step) /\ InTable(later))
                => NotAbove(later)

(***************************************************************************)
(* last_saved_simulation_time                                              *)
(***************************************************************************)
\* C28 last_saved_simulation_time is untouched by integration:
\* process_main_loop never assigns it, so throughout a run it keeps the value
\* it had at loop entry (-1, or the simulation_time restored from the
\* checkpoint), also after sample rows have been emitted; only the checkpoint
\* restore changes it.
C28_LastSavedUntouched ==
    [][/\ pc \in {"balanced", "pulse", "afterglow", "finished"} =>
              last_saved_simulation_time' = last_saved_simulation_time
       /\ last_saved_simulation_time' # last_saved_simulation_time =>
              /\ pc = "configured"
              /\ last_saved_simulation_time' = simulation_time'
              /\ last_saved_simulation_time' =
                    read_species_density_data_file(output_csv).values[NO_SPECIES + 1]
      ]_vars

\* a restored run that has emitted rows in the pulse and in the afterglow and
\* still holds the restored time
C28_Witness ==
    /\ pc \in {"afterglow", "finished"}
    /\ Restored
    /\ Len(emitted) >= 2
    /\ emitted[1] < 10 * plasma_time
    /\ emitted[Len(emitted)] >= 10 * plasma_time
    /\ last_saved_simulation_time < emitted[1]
    /\ last_saved_simulation_time =
          read_species_density_data_file(
              [exists |-> TRUE, lines |-> SubSeq(output_csv.lines, 1, 2)]
          ).values[NO_SPECIES + 1]

(***************************************************************************)
(* The zero-density guard of the loss                                      *)
(***************************************************************************)
\* the loss of species i replayed from its final loss list without the guard
UnguardedLoss(i) ==
    TermSum(lists[i].losses, lists[i].losses_multiplier, rate', density,
            lists[i].losses[0])

FiniteDensities == \A h \in SpeciesIndex : density[h] # NaN

====
